---- MODULE Spec2Model ----
(***************************************************************************)
(* Ingestion-and-rollup engine of the analytics platform: the CloudFront   *)
(* log parser (src/lambda/log-parser/handler.py) and the journey tracker   *)
(* (src/lambda/journey-tracker/handler.py), with the DynamoDB tables they  *)
(* write.  Python str values are TLA+ strings; None is the value NoneVal.  *)
(***************************************************************************)
EXTENDS Integers, Sequences, FiniteSets, TLC

VARIABLES
    table,      \* TABLE_NAME: the event rows, a set of items keyed by (PK, SK)
    rollups,    \* TABLE_NAME: the ROLLUP# rows, a function <<PK, SK>> -> item
    rollups0,   \* history: the ROLLUP# rows before the first invocation
    mirror,     \* the ROLLUP# rows of a second table that is fed in the opposite order
    now,        \* the wall clock (epoch seconds)
    inv,        \* the log-parser invocations: per invocation its position and locals
    sessions,   \* SESSIONS_TABLE: the session event rows
    req,        \* the journey tracker's request being answered (or NoneRec)
    resp,       \* the journey tracker's last response (or NoneRec)
    bucket,     \* the S3 log bucket: object key -> decoded content
    env,        \* the process environment the module-level settings are read from
    probe,      \* history: the fields the delivered log line was built from
    cache,      \* TABLE_NAME: the CACHE# rows, a function <<PK, SK>> -> item
    job,        \* the cache builder's invocation: its position and locals
    auth,       \* analytics-auth: the admin table, the tokens issued, the last answer
    clients     \* one process: the cached AWS clients and the threads calling for them

vars ==
    <<table, rollups, rollups0, mirror, now, inv, sessions, req, resp, bucket, env, probe,
      cache, job, auth, clients>>

\* what the journey tracker reads and writes
trackerVars == <<sessions, req, resp>>

\* what no function changes
inputVars == <<rollups0, mirror, bucket, env, probe>>

\* what the cache builder, the auth service and the client accessors read and write
sideVars == <<cache, job, auth, clients>>

\* what neither the log parser nor the journey tracker changes
fixedVars == <<inputVars, sideVars>>

(***************************************************************************)
(* Python values                                                           *)
(***************************************************************************)

\* Python's None.  No input string of the model equals it.
NoneVal == "<None>"

\* Python's None where a dict is expected
NoneRec == [none |-> TRUE]

\* Python truthiness of an optional str: None and "" are falsy.
Truthy(s) == s # NoneVal /\ s # ""

\* the ASCII letters
Letters ==
    {"a", "b", "c", "d", "e", "f", "g", "h", "i", "j", "k", "l", "m", "n", "o", "p", "q",
     "r", "s", "t", "u", "v", "w", "x", "y", "z", "A", "B", "C", "D", "E", "F", "G", "H",
     "I", "J", "K", "L", "M", "N", "O", "P", "Q", "R", "S", "T", "U", "V", "W", "X", "Y",
     "Z"}

Char(s, i) == SubSeq(s, i, i)

\* str.lower() on one ASCII character
LowerChar(c) ==
    CASE c = "A" -> "a" [] c = "B" -> "b" [] c = "C" -> "c" [] c = "D" -> "d"
      [] c = "E" -> "e" [] c = "F" -> "f" [] c = "G" -> "g" [] c = "H" -> "h"
      [] c = "I" -> "i" [] c = "J" -> "j" [] c = "K" -> "k" [] c = "L" -> "l"
      [] c = "M" -> "m" [] c = "N" -> "n" [] c = "O" -> "o" [] c = "P" -> "p"
      [] c = "Q" -> "q" [] c = "R" -> "r" [] c = "S" -> "s" [] c = "T" -> "t"
      [] c = "U" -> "u" [] c = "V" -> "v" [] c = "W" -> "w" [] c = "X" -> "x"
      [] c = "Y" -> "y" [] c = "Z" -> "z" [] OTHER -> c

RECURSIVE Lower(_)
\* str.lower()
Lower(s) == IF s = "" THEN "" ELSE LowerChar(Char(s, 1)) \o Lower(SubSeq(s, 2, Len(s)))

\* str.startswith(prefix)
StartsWith(s, prefix) ==
    Len(prefix) <= Len(s) /\ SubSeq(s, 1, Len(prefix)) = prefix

\* str.endswith(suffix)
EndsWith(s, suffix) ==
    Len(suffix) <= Len(s) /\ SubSeq(s, Len(s) - Len(suffix) + 1, Len(s)) = suffix

\* s[i:] with a 0-based Python index i >= 0
From(s, i) == SubSeq(s, i + 1, Len(s))

\* s[i:j] with 0-based Python indices 0 <= i <= j (j clipped to len(s))
Slice(s, i, j) == SubSeq(s, i + 1, IF j < Len(s) THEN j ELSE Len(s))

\* the least element of a non-empty set of integers
Min(S) == CHOOSE i \in S : \A j \in S : i <= j

\* str.find(c) for a one-character c, 1-based; 0 when c does not occur
Find(s, c) ==
    LET hits == {i \in 1..Len(s) : Char(s, i) = c} IN
    IF hits = {} THEN 0 ELSE Min(hits)

\* the pieces of s between the separator positions seps (a set of positions)
Pieces(s, seps) ==
    LET n == Cardinality(seps)
        pos(k) == IF k = 0 THEN 0
                  ELSE IF k = n + 1 THEN Len(s) + 1
                  ELSE CHOOSE h \in seps : Cardinality({j \in seps : j <= h}) = k
    IN  [k \in 1..(n + 1) |-> SubSeq(s, pos(k - 1) + 1, pos(k) - 1)]

\* str.split(c): the sequence of the pieces between the occurrences of c
Split(s, c) == Pieces(s, {i \in 1..Len(s) : Char(s, i) = c})

\* str.split(c, n): at most n splits (the first n occurrences), the rest kept whole
SplitN(s, c, n) ==
    LET all == {i \in 1..Len(s) : Char(s, i) = c}
    IN  Pieces(s, {h \in all : Cardinality({j \in all : j <= h}) <= n})

\* the characters str.strip() removes from both ends
IsSpace(c) == c \in {" ", "\t", "\n", "\r"}

RECURSIVE LStrip(_)
LStrip(s) == IF s # "" /\ IsSpace(Char(s, 1)) THEN LStrip(SubSeq(s, 2, Len(s))) ELSE s

RECURSIVE RStrip(_)
RStrip(s) ==
    IF s # "" /\ IsSpace(Char(s, Len(s))) THEN RStrip(SubSeq(s, 1, Len(s) - 1)) ELSE s

\* str.strip()
Strip(s) == LStrip(RStrip(s))

\* the %XX escapes of the model's alphabet, as urllib.parse.unquote decodes them
PctDecode(h) ==
    CASE Lower(h) = "23" -> "#"
      [] Lower(h) = "2d" -> "-"
      [] Lower(h) = "2f" -> "/"
      [] Lower(h) = "2e" -> "."
      [] OTHER -> NoneVal

RECURSIVE unquote(_)
\* urllib.parse.unquote: %XX becomes its character, anything else is kept
unquote(s) ==
    IF s = "" THEN ""
    ELSE IF Char(s, 1) = "%" /\ Len(s) >= 3 /\ PctDecode(SubSeq(s, 2, 3)) # NoneVal
         THEN PctDecode(SubSeq(s, 2, 3)) \o unquote(SubSeq(s, 4, Len(s)))
         ELSE Char(s, 1) \o unquote(SubSeq(s, 2, Len(s)))

\* the characters a URL scheme may hold after its first letter
IsSchemeChar(c) ==
    \/ c \in Letters
    \/ c \in {"0", "1", "2", "3", "4", "5", "6", "7", "8", "9", "+", "-", "."}

\* urlsplit: the url with a leading "scheme:" removed
AfterScheme(url) ==
    LET i == Find(url, ":") IN
    IF /\ i > 1
       /\ Char(url, 1) \in Letters
       /\ \A j \in 1..(i - 1) : IsSchemeChar(Char(url, j))
    THEN SubSeq(url, i + 1, Len(url))
    ELSE url

\* the first position >= i of url holding one of / ? #, or len(url) + 1
NetlocEnd(url, i) ==
    LET hits == {j \in i..Len(url) : Char(url, j) \in {"/", "?", "#"}} IN
    IF hits = {} THEN Len(url) + 1 ELSE Min(hits)

\* urllib.parse.urlparse(url).netloc
Netloc(url) ==
    LET rest == AfterScheme(url) IN
    IF StartsWith(rest, "//")
    THEN SubSeq(rest, 3, NetlocEnd(rest, 3) - 1)
    ELSE ""

\* urlparse raises ValueError on a netloc with unbalanced IPv6 brackets
UrlparseRaises(url) ==
    LET n == Netloc(url) IN
    (Find(n, "[") # 0) # (Find(n, "]") # 0)

(***************************************************************************)
(* log-parser: module-level settings                                       *)
(***************************************************************************)

\* TTL for analytics events (90 days)
TTL_DAYS == 90

\* the elements x.strip() of s.split(",") that are not empty
RECURSIVE StrippedNonEmpty(_)
StrippedNonEmpty(parts) ==
    IF parts = <<>> THEN <<>>
    ELSE (IF Strip(Head(parts)) # "" THEN <<Strip(Head(parts))>> ELSE <<>>)
         \o StrippedNonEmpty(Tail(parts))

\* EXCLUDED_EXTENSIONS: a set of lowercased suffixes
EXCLUDED_EXTENSIONS(e) ==
    LET l == StrippedNonEmpty(Split(e.EXCLUDED_EXTENSIONS, ","))
    IN  {Lower(l[i]) : i \in 1..Len(l)}

\* EXCLUDED_PATHS: a list of prefixes
EXCLUDED_PATHS(e) == StrippedNonEmpty(Split(e.EXCLUDED_PATHS, ","))

(***************************************************************************)
(* log-parser: parsing and filtering                                       *)
(***************************************************************************)

\* x with one leading "www." removed
StripWww(x) == IF StartsWith(x, "www.") THEN From(x, 4) ELSE x

\* a parser that keeps the referrer domain of a self-referral
ExternalDomain_KeepSelf(raw_ref_domain, normalized_host) ==
    IF raw_ref_domain # "" THEN raw_ref_domain ELSE NoneVal

\* lines 98-107: the stored referrer domain, None for a self-referral or no netloc
ExternalDomain(raw_ref_domain, normalized_host) ==
    IF raw_ref_domain # "" /\ raw_ref_domain # normalized_host
    THEN raw_ref_domain
    ELSE NoneVal

\* the referrer domain of lines 93-109
ReferrerDomain(referrer, host) ==
    IF Truthy(referrer) /\ referrer # "-"
    THEN IF UrlparseRaises(referrer) THEN NoneVal
         ELSE ExternalDomain(StripWww(Lower(Netloc(referrer))), StripWww(Lower(host)))
    ELSE NoneVal

\* the dict of lines 111-125
ParsedEvent(date_str, time_str, client_ip, host, path, status, referrer, user_agent, request_id) ==
    [domain |-> host,
     timestamp |-> date_str \o "T" \o time_str \o "Z",
     date |-> date_str,
     path |-> path,
     status |-> status,
     referrer |-> referrer,
     referrer_domain |-> ReferrerDomain(referrer, host),
     user_agent |-> user_agent,
     client_ip |-> client_ip,
     request_id |-> request_id]

\* lines 79-125: the fields of a line that is no comment
ParseFields(fields) ==
    IF Len(fields) < 20 THEN NoneRec
    ELSE ParsedEvent(fields[1], fields[2], fields[5], fields[7], unquote(fields[8]),
                     fields[9],
                     IF fields[10] # "-" THEN unquote(fields[10]) ELSE NoneVal,
                     IF fields[11] # "-" THEN unquote(fields[11]) ELSE NoneVal,
                     fields[15])

\* a parser that counts the fields of the line as it is delivered
_parse_cloudfront_log_line_Unstripped(line) ==
    IF StartsWith(line, "#") THEN NoneRec
    ELSE ParseFields(Split(line, "\t"))

\* Parse a single CloudFront log line: the parsed dict, or NoneRec for a skip
_parse_cloudfront_log_line(line) ==
    IF StartsWith(line, "#") THEN NoneRec
    ELSE ParseFields(Split(Strip(line), "\t"))

\* Extract domain from S3 key: the first "/"-delimited segment
_extract_domain_from_s3_key(key) ==
    LET parts == Split(key, "/") IN
    IF Len(parts) > 0 THEN parts[1] ELSE NoneVal

\* a filter that excludes a path only when every configured suffix matches it
_should_exclude_path_AllSuffixes(path, e) ==
    \/ \A ext \in EXCLUDED_EXTENSIONS(e) : EndsWith(Lower(path), ext)
    \/ \E i \in 1..Len(EXCLUDED_PATHS(e)) :
          StartsWith(Lower(path), Lower(EXCLUDED_PATHS(e)[i]))

\* Check if path should be excluded based on file extension or path prefix
_should_exclude_path(path, e) ==
    LET path_lower == Lower(path)
        prefixes == EXCLUDED_PATHS(e)
    IN  \/ \E ext \in EXCLUDED_EXTENSIONS(e) : EndsWith(path_lower, ext)
        \/ \E i \in 1..Len(prefixes) : StartsWith(path_lower, Lower(prefixes[i]))

\* a line loop that leaves the host of the log line as the domain of the event
KeptOf_KeepHost(parsed, actual_domain, e) ==
    IF parsed = NoneRec THEN <<>>
    ELSE IF _should_exclude_path(parsed.path, e) THEN <<>>
    ELSE <<parsed>>

\* lines 376-383: the items a parsed line adds to the kept ones
KeptOf(parsed, actual_domain, e) ==
    IF parsed = NoneRec THEN <<>>
    ELSE IF _should_exclude_path(parsed.path, e) THEN <<>>
    ELSE <<[parsed EXCEPT !.domain = actual_domain]>>

RECURSIVE KeptItems_StopAtBad(_, _, _)
\* a line loop that gives up on the object at the first line the parser skips
KeptItems_StopAtBad(lines, actual_domain, e) ==
    IF lines = <<>> THEN <<>>
    ELSE IF _parse_cloudfront_log_line(Head(lines)) = NoneRec THEN <<>>
    ELSE KeptOf(_parse_cloudfront_log_line(Head(lines)), actual_domain, e)
         \o KeptItems_StopAtBad(Tail(lines), actual_domain, e)

RECURSIVE KeptItems(_, _, _)
\* lambda_handler lines 372-384: the parsed, kept and domain-overridden lines
KeptItems(lines, actual_domain, e) ==
    IF lines = <<>> THEN <<>>
    ELSE KeptOf(_parse_cloudfront_log_line(Head(lines)), actual_domain, e)
         \o KeptItems(Tail(lines), actual_domain, e)

(***************************************************************************)
(* log-parser: the event writer                                            *)
(***************************************************************************)

\* int((datetime.now(timezone.utc) + timedelta(days=TTL_DAYS)).timestamp())
TtlAt(clock) == clock + TTL_DAYS * 24 * 60 * 60

\* the attribute name :> value when the optional value is truthy, else nothing
Optional(name, value) ==
    IF Truthy(value) THEN name :> value ELSE <<>>

\* an event writer whose sort key is the timestamp alone
db_item_TimestampKey(item, clock) ==
    [PK |-> item.domain \o "#" \o item.date,
     SK |-> item.timestamp,
     domain |-> item.domain,
     timestamp |-> item.timestamp,
     path |-> item.path,
     status |-> item.status,
     request_id |-> item.request_id,
     ttl |-> TtlAt(clock),
     GSI1PK |-> item.domain \o "#" \o item.path,
     GSI1SK |-> item.timestamp]
    @@ Optional("referrer", item.referrer)
    @@ Optional("referrer_domain", item.referrer_domain)
    @@ Optional("user_agent", item.user_agent)
    @@ Optional("client_ip", item.client_ip)

\* the DynamoDB item of one parsed line (lines 179-211)
db_item(item, clock) ==
    [PK |-> item.domain \o "#" \o item.date,
     SK |-> item.timestamp \o "#" \o item.request_id,
     domain |-> item.domain,
     timestamp |-> item.timestamp,
     path |-> item.path,
     status |-> item.status,
     request_id |-> item.request_id,
     ttl |-> TtlAt(clock),
     GSI1PK |-> item.domain \o "#" \o item.path,
     GSI1SK |-> item.timestamp]
    @@ Optional("referrer", item.referrer)
    @@ Optional("referrer_domain", item.referrer_domain)
    @@ (IF Truthy(item.referrer_domain)
        THEN [GSI2PK |-> item.domain \o "#" \o item.referrer_domain,
              GSI2SK |-> item.timestamp]
        ELSE <<>>)
    @@ Optional("user_agent", item.user_agent)
    @@ Optional("client_ip", item.client_ip)

\* a store that keeps the stored row next to the new item
put_item_Insert(rows, item) == rows \cup {item}

\* Table.put_item: the item replaces the row of the same (PK, SK), if any
put_item(rows, item) ==
    {r \in rows : <<r.PK, r.SK>> # <<item.PK, item.SK>>} \cup {item}

RECURSIVE PutAll(_, _, _)
\* one batch_writer block: the puts of a batch, in order
PutAll(rows, batch, clock) ==
    IF batch = <<>> THEN rows
    ELSE PutAll(put_item(rows, db_item(Head(batch), clock)), Tail(batch), clock)

\* items per batch_writer block (line 172)
batch_size == 25

RECURSIVE _batch_write_to_dynamodb(_, _, _)
\* Batch write items to DynamoDB (25 items at a time): the table afterwards
_batch_write_to_dynamodb(rows, items, clock) ==
    IF items = <<>> THEN rows
    ELSE _batch_write_to_dynamodb(PutAll(rows, Slice(items, 0, batch_size), clock),
                                  From(items, IF Len(items) < batch_size
                                              THEN Len(items) ELSE batch_size),
                                  clock)

(***************************************************************************)
(* log-parser: the rollup writer                                           *)
(***************************************************************************)

RECURSIVE Distinct(_)
\* the keys of a dict in insertion order: each element once, first occurrence first
Distinct(seq) ==
    IF seq = <<>> THEN <<>>
    ELSE LET rest == Distinct(SubSeq(seq, 1, Len(seq) - 1)) IN
         IF \E i \in 1..Len(rest) : rest[i] = seq[Len(seq)]
         THEN rest ELSE Append(rest, seq[Len(seq)])

\* the number of positions of seq whose element satisfies the key
CountKey(keys, k) == Cardinality({i \in 1..Len(keys) : keys[i] = k})

\* hour of an item: timestamp[11:13], "00" for a short timestamp (line 246)
HourOf(item) ==
    IF Len(item.timestamp) >= 13 THEN Slice(item.timestamp, 11, 13) ELSE "00"

daily_key(item) == item.domain \o "#" \o item.date

page_key(item) == item.domain \o "#" \o item.date \o "#" \o item.path

ref_key(item) == item.domain \o "#" \o item.date \o "#" \o item.referrer_domain

hour_key(item) == item.domain \o "#" \o item.date \o "#" \o HourOf(item)

\* seq with the elements failing Keep dropped
RECURSIVE SelectIdx(_, _)
SelectIdx(seq, keepIdx) ==
    IF seq = <<>> THEN <<>>
    ELSE SelectIdx(SubSeq(seq, 1, Len(seq) - 1), keepIdx)
         \o (IF Len(seq) \in keepIdx THEN <<seq[Len(seq)]>> ELSE <<>>)

\* a daily stats loop that adds the number of distinct client IPs as requests
DailyUpdates_CountIps(items, ttl) ==
    LET keys == [i \in 1..Len(items) |-> daily_key(items[i])]
        order == Distinct(keys)
    IN  [n \in 1..Len(order) |->
            LET parts == SplitN(order[n], "#", 1)
                ips == {items[i].client_ip :
                           i \in {j \in 1..Len(items) :
                                     keys[j] = order[n] /\ Truthy(items[j].client_ip)}}
            IN  [Key |-> <<"ROLLUP#" \o parts[1], "STATS#" \o parts[2]>>,
                 attr |-> "requests",
                 delta |-> Cardinality(ips),
                 ips |-> ips,
                 ttl |-> ttl]]

\* the update_item calls of the daily stats loop (lines 274-291), in dict order
DailyUpdates(items, ttl) ==
    LET keys == [i \in 1..Len(items) |-> daily_key(items[i])]
        order == Distinct(keys)
    IN  [n \in 1..Len(order) |->
            LET parts == SplitN(order[n], "#", 1)
                ips == {items[i].client_ip :
                           i \in {j \in 1..Len(items) :
                                     keys[j] = order[n] /\ Truthy(items[j].client_ip)}}
            IN  [Key |-> <<"ROLLUP#" \o parts[1], "STATS#" \o parts[2]>>,
                 attr |-> "requests",
                 delta |-> CountKey(keys, order[n]),
                 ips |-> ips,
                 ttl |-> ttl]]

\* the update_item calls of one count family (lines 294-330), in dict order
CountUpdates(keys, prefix, ttl) ==
    LET order == Distinct(keys) IN
    [n \in 1..Len(order) |->
        LET parts == SplitN(order[n], "#", 2) IN
        [Key |-> <<"ROLLUP#" \o parts[1], prefix \o parts[2] \o "#" \o parts[3]>>,
         attr |-> "count",
         delta |-> CountKey(keys, order[n]),
         ips |-> {},
         ttl |-> ttl]]

RECURSIVE RollupUpdates_PerEvent(_, _)
\* a rollup writer that issues the updates of each event as it meets it
RollupUpdates_PerEvent(items, ttl) ==
    IF items = <<>> THEN <<>>
    ELSE LET one == <<Head(items)>>
         IN  DailyUpdates(one, ttl)
             \o CountUpdates(<<page_key(one[1])>>, "PAGE#", ttl)
             \o (IF Truthy(one[1].referrer_domain)
                 THEN CountUpdates(<<ref_key(one[1])>>, "REF#", ttl) ELSE <<>>)
             \o CountUpdates(<<hour_key(one[1])>>, "HOUR#", ttl)
             \o RollupUpdates_PerEvent(Tail(items), ttl)

\* Phase 1 and the calls of Phase 2: every update_item call of _update_rollups
RollupUpdates(items, ttl) ==
    LET withRef == SelectIdx(items, {i \in 1..Len(items) : Truthy(items[i].referrer_domain)})
    IN  DailyUpdates(items, ttl)
        \o CountUpdates([i \in 1..Len(items) |-> page_key(items[i])], "PAGE#", ttl)
        \o CountUpdates([i \in 1..Len(withRef) |-> ref_key(withRef[i])], "REF#", ttl)
        \o CountUpdates([i \in 1..Len(items) |-> hour_key(items[i])], "HOUR#", ttl)

\* an update that assigns the counter where DynamoDB adds to it
AddNumber_Assign(row, attr, delta) == delta

\* DynamoDB ADD on a number attribute: an absent attribute counts as 0
AddNumber(row, attr, delta) ==
    IF attr \in DOMAIN row THEN row[attr] + delta ELSE delta

\* an update that assigns the set where DynamoDB unites it
AddSet_Assign(row, attr, elems) == elems

\* DynamoDB ADD on a string-set attribute: an absent attribute counts as {}
AddSet(row, attr, elems) ==
    IF attr \in DOMAIN row THEN row[attr] \cup elems ELSE elems

\* a store that acknowledges an update and applies nothing
update_item_Drop(rl, u) == rl

\* Table.update_item of one call u: SET ttl, ADD the counter, ADD unique_ips
update_item(rl, u) ==
    LET old == IF u.Key \in DOMAIN rl THEN rl[u.Key] ELSE <<>>
        counted == (u.attr :> AddNumber(old, u.attr, u.delta)) @@ ("ttl" :> u.ttl) @@ old
        new == IF u.ips # {}
               THEN ("unique_ips" :> AddSet(old, "unique_ips", u.ips)) @@ counted
               ELSE counted
    IN  (u.Key :> new) @@ rl

RECURSIVE ApplyUpdates(_, _)
ApplyUpdates(rl, updates) ==
    IF updates = <<>> THEN rl
    ELSE ApplyUpdates(update_item(rl, Head(updates)), Tail(updates))

\* Update rollup counters for the items of one object, every call succeeding
_update_rollups(rl, items, clock) ==
    IF items = <<>> THEN rl
    ELSE ApplyUpdates(rl, RollupUpdates(items, TtlAt(clock)))

(***************************************************************************)
(* log-parser: lambda_handler, one action per blocking call                *)
(***************************************************************************)

\* the number of concurrent log-parser invocations
NumInvocations == 2

\* the clock advances at most this many seconds
MaxClock == 1

\* at most this many S3 or store calls fail in one behaviour
MaxFailures == 1

\* the platform delivers an envelope at most this many times to one container
MaxDeliveries == 2

Invocations == 1..NumInvocations

\* an invocation before the platform starts it.  History fields: deliveries counts
\* the envelopes handled, warnings the update failures logged, issued the
\* update_item calls issued for the current object, overlap whether one of them
\* was issued while another invocation was between its own update_item calls,
\* puts the batch_writer blocks put for the current object.
Idle ==
    [pc |-> "idle", Records |-> <<>>, r |-> 0, items |-> <<>>, offset |-> 0,
     pending |-> <<>>, total_processed |-> 0, total_written |-> 0,
     deliveries |-> 0, warnings |-> 0, issued |-> 0, overlap |-> FALSE, puts |-> <<>>]

\* the S3 and store failures so far, over all invocations
Failures ==
    Cardinality({i \in Invocations : inv[i].pc = "raised"})
    + Cardinality({i \in Invocations : inv[i].warnings > 0})

\* the loop of line 353 moves to the next record, or the handler returns 200
NextRecord(l) ==
    IF l.r < Len(l.Records)
    THEN [l EXCEPT !.pc = "get_object", !.r = l.r + 1, !.items = <<>>, !.offset = 0,
                   !.pending = <<>>, !.issued = 0, !.puts = <<>>]
    ELSE [l EXCEPT !.pc = "returned", !.items = <<>>, !.offset = 0, !.pending = <<>>,
                   !.issued = 0, !.puts = <<>>]

\* the platform invokes lambda_handler with an envelope (lines 345-353)
Invoke(i, event) ==
    /\ inv[i].pc = "idle"
    /\ inv' = [inv EXCEPT ![i] = NextRecord([Idle EXCEPT !.Records = event,
                                                         !.deliveries = 1])]
    /\ UNCHANGED <<table, rollups, now, trackerVars, fixedVars>>

\* the platform delivers the same envelope again to the warm container
Redeliver(i) ==
    /\ inv[i].pc = "returned"
    /\ inv[i].deliveries < MaxDeliveries
    /\ inv' = [inv EXCEPT ![i] =
                  NextRecord([Idle EXCEPT !.Records = inv[i].Records,
                                          !.deliveries = inv[i].deliveries + 1])]
    /\ UNCHANGED <<table, rollups, now, trackerVars, fixedVars>>

\* the platform delivers the envelope of a failed invocation again
Retry(i) ==
    /\ inv[i].pc = "raised"
    /\ inv[i].deliveries < MaxDeliveries
    /\ inv' = [inv EXCEPT ![i] =
                  NextRecord([Idle EXCEPT !.Records = inv[i].Records,
                                          !.deliveries = inv[i].deliveries + 1,
                                          !.warnings = inv[i].warnings])]
    /\ UNCHANGED <<table, rollups, now, trackerVars, fixedVars>>

\* a handler that raises on a key without a domain segment
AfterGetObject_RaiseNoDomain(l, actual_domain, items) ==
    IF ~Truthy(actual_domain) THEN [l EXCEPT !.pc = "raised"]
    ELSE IF items = <<>> THEN NextRecord(l)
    ELSE [l EXCEPT !.pc = "batch_write", !.items = items,
                   !.total_processed = @ + Len(items)]

\* lines 366-387: the invocation once the content of an object is decoded
AfterGetObject(l, actual_domain, items) ==
    IF ~Truthy(actual_domain) THEN NextRecord(l)
    ELSE IF items = <<>> THEN NextRecord(l)
    ELSE [l EXCEPT !.pc = "batch_write", !.items = items,
                   !.total_processed = @ + Len(items)]

\* a line loop that counts the excluded requests as processed
Decoded_CountExcluded(l, key, e) ==
    [AfterGetObject(l, _extract_domain_from_s3_key(key),
                    KeptItems(Split(bucket[key], "\n"), _extract_domain_from_s3_key(key), e))
        EXCEPT !.total_processed =
                   l.total_processed
                   + Len(KeptItems(Split(bucket[key], "\n"), _extract_domain_from_s3_key(key),
                                   [e EXCEPT !.EXCLUDED_EXTENSIONS = "",
                                             !.EXCLUDED_PATHS = ""]))]

\* lines 364-384: the content of the object at key is split, parsed and filtered
Decoded(l, key, e) ==
    AfterGetObject(l, _extract_domain_from_s3_key(key),
                   KeptItems(Split(bucket[key], "\n"), _extract_domain_from_s3_key(key), e))

\* a handler that catches the failed fetch of a missing key and goes on
GetObject_SkipMissing(i) ==
    /\ inv[i].pc = "get_object"
    /\ inv' = [inv EXCEPT ![i] =
                  IF inv[i].Records[inv[i].r] \notin DOMAIN bucket
                  THEN NextRecord(inv[i])
                  ELSE Decoded(inv[i], inv[i].Records[inv[i].r], env)]
    /\ UNCHANGED <<table, rollups, now, trackerVars, fixedVars>>

\* lines 354-387: s3.get_object, decode, parse and filter the lines of one object;
\* a key that is not in the bucket raises (NoSuchKey)
GetObject(i) ==
    /\ inv[i].pc = "get_object"
    /\ inv' = [inv EXCEPT ![i] =
                  IF inv[i].Records[inv[i].r] \notin DOMAIN bucket
                  THEN [inv[i] EXCEPT !.pc = "raised"]
                  ELSE Decoded(inv[i], inv[i].Records[inv[i].r], env)]
    /\ UNCHANGED <<table, rollups, now, trackerVars, fixedVars>>

\* s3.get_object or the decode raises: the handler re-raises (lines 415-417)
GetObjectFails(i) ==
    /\ inv[i].pc = "get_object"
    /\ Failures < MaxFailures
    /\ inv' = [inv EXCEPT ![i].pc = "raised"]
    /\ UNCHANGED <<table, rollups, now, trackerVars, fixedVars>>

\* a handler that starts the rollup updates after the first batch_writer block
AfterBatch_RollupsEarly(l, batch, clock) ==
    [l EXCEPT !.offset = @ + batch_size, !.total_written = @ + Len(batch),
              !.puts = Append(@, batch),
              !.pc = "update_item", !.pending = RollupUpdates(l.items, TtlAt(clock))]

\* the invocation after the batch_writer block of `batch`; after the last block
\* Phase 1 of _update_rollups (lines 233-271) has aggregated the items
AfterBatch(l, batch, clock) ==
    IF l.offset + batch_size >= Len(l.items)
    THEN [l EXCEPT !.offset = @ + batch_size, !.total_written = @ + Len(batch),
                   !.puts = Append(@, batch),
                   !.pc = "update_item",
                   !.pending = RollupUpdates(l.items, TtlAt(clock))]
    ELSE [l EXCEPT !.offset = @ + batch_size, !.total_written = @ + Len(batch),
                   !.puts = Append(@, batch)]

\* lines 174-214: one batch_writer block of at most batch_size puts
BatchWrite(i) ==
    /\ inv[i].pc = "batch_write"
    /\ table' = PutAll(table,
                       Slice(inv[i].items, inv[i].offset, inv[i].offset + batch_size), now)
    /\ inv' = [inv EXCEPT ![i] =
                  AfterBatch(inv[i],
                             Slice(inv[i].items, inv[i].offset, inv[i].offset + batch_size),
                             now)]
    /\ UNCHANGED <<rollups, now, trackerVars, fixedVars>>

\* the batch put raises: the handler re-raises
BatchWriteFails(i) ==
    /\ inv[i].pc = "batch_write"
    /\ Failures < MaxFailures
    /\ inv' = [inv EXCEPT ![i].pc = "raised"]
    /\ UNCHANGED <<table, rollups, now, trackerVars, fixedVars>>

\* another invocation is between two of its own update_item calls
OthersUpdating(i) ==
    \E j \in Invocations \ {i} : inv[j].pc = "update_item" /\ inv[j].issued > 0

\* the invocation after one update_item call of Phase 2 has been issued
AfterUpdate(l, warned, overlapped) ==
    IF Len(l.pending) = 1
    THEN NextRecord([l EXCEPT !.warnings = @ + warned, !.overlap = @ \/ overlapped])
    ELSE [l EXCEPT !.pending = Tail(@), !.warnings = @ + warned,
                   !.issued = @ + 1, !.overlap = @ \/ overlapped]

\* lines 273-330: one update_item call of Phase 2
UpdateItem(i) ==
    /\ inv[i].pc = "update_item"
    /\ rollups' = update_item(rollups, Head(inv[i].pending))
    /\ inv' = [inv EXCEPT ![i] = AfterUpdate(inv[i], 0, OthersUpdating(i))]
    /\ UNCHANGED <<table, now, trackerVars, fixedVars>>

\* a rollup writer that gives up on the rest of Phase 2 when one call raises
UpdateItemFails_Abort(i) ==
    /\ inv[i].pc = "update_item"
    /\ Failures < MaxFailures
    /\ inv' = [inv EXCEPT ![i] =
                  NextRecord([inv[i] EXCEPT !.warnings = @ + 1,
                                            !.overlap = @ \/ OthersUpdating(i)])]
    /\ UNCHANGED <<table, rollups, now, trackerVars, fixedVars>>

\* one update_item call raises: it is logged at WARN and skipped
UpdateItemFails(i) ==
    /\ inv[i].pc = "update_item"
    /\ Failures < MaxFailures
    /\ inv' = [inv EXCEPT ![i] = AfterUpdate(inv[i], 1, OthersUpdating(i))]
    /\ UNCHANGED <<table, rollups, now, trackerVars, fixedVars>>

\* time passes
Tick ==
    /\ now < MaxClock
    /\ now' = now + 1
    /\ UNCHANGED <<table, rollups, inv, trackerVars, fixedVars>>

(***************************************************************************)
(* log-parser: concurrent invocations on the objects of one bucket         *)
(***************************************************************************)

\* one CloudFront log line of 20 tab-separated fields
LogLine(date, time, ip, host, path, referer, ua, rid) ==
    date \o "\t" \o time \o "\tLAX1\t512\t" \o ip \o "\tGET\t" \o host \o "\t" \o path
    \o "\t200\t" \o referer \o "\t" \o ua \o "\t-\t-\tHit\t" \o rid
    \o "\t" \o host \o "\thttps\t256\t0.001\t-"

\* the log objects in the bucket: S3 key -> decoded content
Bucket ==
    [k \in {"a.io/E1.gz", "a.io/E2.gz", "/E3.gz"} |->
        CASE k = "a.io/E1.gz" ->
                 "#Version: 1.0\n"
                 \o LogLine("2024-01-15", "12:00:00", "1.2.3.4", "d1.cloudfront.net", "/",
                            "https://google.com/", "Mozilla", "r1") \o "\n"
                 \o LogLine("2024-01-15", "12:30:00", "5.6.7.8", "d1.cloudfront.net",
                            "/app.CSS", "-", "-", "r2") \o "\n"
          [] k = "a.io/E2.gz" ->
                 LogLine("2024-01-15", "12:59:59", "1.2.3.4", "www.a.io", "/",
                         "https://A.io/home", "-", "r3") \o "\n"
                 \o "truncated\tline\n"
                 \o LogLine("2024-01-15", "13:00:00", "9.9.9.9", "www.a.io", "/x",
                            "-", "curl", "r4")
          [] OTHER ->
                 LogLine("2024-01-15", "12:00:00", "1.2.3.4", "d1.cloudfront.net", "/",
                         "-", "-", "r1")]

\* the Records envelopes the platform delivers (one S3 key per record)
Envelopes ==
    {<<"a.io/E1.gz">>, <<"a.io/E2.gz">>, <<"/E3.gz", "a.io/E1.gz">>, <<"a.io/missing.gz">>, <<>>}

\* the environment of the deployed functions
DeployedEnv ==
    [EXCLUDED_EXTENSIONS |-> ".css,.js", EXCLUDED_PATHS |-> "/wp-admin",
     ALLOWED_DOMAINS |-> "a.io,b.io", SESSIONS_TABLE |-> "sessions",
     TABLE_NAME |-> "events", DOMAIN_LIST |-> "a.io, b.io"]

\* the ROLLUP# rows that may exist before the first invocation
InitialRollups ==
    {<<>>,
     <<"ROLLUP#a.io", "STATS#2024-01-15">> :>
         [requests |-> 5, unique_ips |-> {"1.2.3.4", "7.7.7.7"}, ttl |-> 7]}

\* the cache builder, the auth service and the client accessors are not in use
SideInit ==
    /\ cache = <<>>
    /\ job = NoneRec
    /\ auth = NoneRec
    /\ clients = NoneRec

IngestInit ==
    /\ table = {}
    /\ rollups \in InitialRollups
    /\ rollups0 = rollups
    /\ mirror = <<>>
    /\ now = 0
    /\ inv = [i \in Invocations |-> Idle]
    /\ sessions = {}
    /\ req = NoneRec
    /\ resp = NoneRec
    /\ bucket = Bucket
    /\ env = DeployedEnv
    /\ probe = NoneRec
    /\ SideInit

IngestNext ==
    \/ \E i \in Invocations, event \in Envelopes : Invoke(i, event)
    \/ \E i \in Invocations : GetObject(i)
    \/ \E i \in Invocations : GetObjectFails(i)
    \/ \E i \in Invocations : BatchWrite(i)
    \/ \E i \in Invocations : BatchWriteFails(i)
    \/ \E i \in Invocations : UpdateItem(i)
    \/ \E i \in Invocations : UpdateItemFails(i)
    \/ Tick

\* the log parser under concurrent invocations
SpecIngest == IngestInit /\ [][IngestNext]_vars

(***************************************************************************)
(* log-parser: one container under fair scheduling, failures and retries   *)
(***************************************************************************)

RetryNext ==
    \/ \E event \in Envelopes : Invoke(1, event)
    \/ GetObject(1)
    \/ GetObjectFails(1)
    \/ BatchWrite(1)
    \/ BatchWriteFails(1)
    \/ UpdateItem(1)
    \/ UpdateItemFails(1)
    \/ Retry(1)
    \/ Tick

\* a running Phase 2 goes on to its next update_item call, and the platform
\* eventually delivers a failed envelope again
RetryFairness ==
    /\ WF_vars(UpdateItem(1))
    /\ WF_vars(Retry(1))

\* the log parser, scheduled fairly, with failures and platform retries
SpecRetry == IngestInit /\ [][RetryNext]_vars /\ RetryFairness

(***************************************************************************)
(* log-parser: one container, delivered one object of arbitrary lines      *)
(***************************************************************************)

\* the fields a delivered log line is built from, with the number of copies of the
\* line in the object and the S3 key of the object
ProbeLine(date, host, path, referer, copies) ==
    [date |-> date, time |-> "12:00:00", ip |-> "1.2.3.4", host |-> host, path |-> path,
     referer |-> referer, ua |-> "Mozilla", rid |-> "r1", copies |-> copies,
     key |-> "a.io/E.gz"]

ProbeHosts == {"a.io", "WWW.A.io", "d1.cloudfront.net"}

ProbeReferers ==
    {"-", "", "https://google.com/", "https://www.a.io/home", "https://www./",
     "HTTP://WWW.B.io:80?q", "%2D", "/local", "http://[a/"}

ProbeDates == {"2024-01-15", "2024-1-5"}

ProbePaths == {"/", "/app.CSS", "/wp-admin/x", "/x.js/y"}

ProbeLines ==
    {ProbeLine(d, h, "/", r, 1) : d \in ProbeDates, h \in ProbeHosts, r \in ProbeReferers}
    \cup {ProbeLine("2024-01-15", "a.io", q, "https://google.com/", c) :
             q \in ProbePaths, c \in {1, 2}}

\* the object content: the copies of the line, one per text line
ProbeContent(p) ==
    LET line == LogLine(p.date, p.time, p.ip, p.host, p.path, p.referer, p.ua, p.rid)
    IN  IF p.copies = 1 THEN line ELSE line \o "\n" \o line \o "\n"

\* the exclusion settings a deployment may carry
ProbeEnvs ==
    {[DeployedEnv EXCEPT !.EXCLUDED_EXTENSIONS = x[1], !.EXCLUDED_PATHS = x[2]] :
        x \in {<<"", "">>, <<".css", "">>, <<".css,.js", "/wp-admin">>,
               <<" .JS , .css,", "/WP-admin, /x">>}}

LinesInit ==
    /\ table = {}
    /\ rollups \in InitialRollups
    /\ rollups0 = rollups
    /\ mirror = <<>>
    /\ now = 0
    /\ inv = [i \in Invocations |-> Idle]
    /\ sessions = {}
    /\ req = NoneRec
    /\ resp = NoneRec
    /\ probe \in ProbeLines
    /\ SideInit
    /\ bucket = (probe.key :> ProbeContent(probe))
    /\ env \in ProbeEnvs

LinesNext ==
    \/ Invoke(1, <<probe.key>>)
    \/ Redeliver(1)
    \/ GetObject(1)
    \/ BatchWrite(1)
    \/ UpdateItem(1)
    \/ Tick

\* the log parser on one object, delivered and redelivered to one container
SpecLines == LinesInit /\ [][LinesNext]_vars

(***************************************************************************)
(* log-parser: the rollup writer run on two batches, in both orders        *)
(***************************************************************************)

\* the longest batch of kept events handed to the rollup writer
MaxBatch == 2

\* kept events of a.io on 2024-01-15, as the parser and the controller leave them
EventPool ==
    {KeptItems(<<LogLine("2024-01-15", x[1], x[2], "d1.cloudfront.net", x[3], x[4],
                         "Mozilla", x[5])>>, "a.io", DeployedEnv)[1] :
        x \in {<<"12:00:00", "1.2.3.4", "/", "https://google.com/", "r1">>,
               <<"12:59:59", "1.2.3.4", "/", "-", "r3">>,
               <<"13:00:00", "9.9.9.9", "/x", "https://google.com/q", "r4">>}}

\* the non-empty batches of at most MaxBatch events
Batches == UNION {[1..n -> EventPool] : n \in 1..MaxBatch}

Range(f) == {f[i] : i \in DOMAIN f}

\* probe.A and probe.B are the two batches; probe.main and probe.mirror list the
\* batches the rollup writer has been run on, for each of the two tables
OrderInit ==
    /\ table = {}
    /\ rollups \in InitialRollups
    /\ rollups0 = rollups
    /\ mirror = rollups
    /\ now = 0
    /\ inv = [i \in Invocations |-> Idle]
    /\ sessions = {}
    /\ req = NoneRec
    /\ resp = NoneRec
    /\ bucket = <<>>
    /\ env = DeployedEnv
    /\ \E A, B \in Batches :
          /\ Range(A) \cap Range(B) = {}
          /\ probe = [A |-> A, B |-> B, main |-> <<>>, mirror |-> <<>>]
    /\ SideInit

\* _update_rollups(A) and then _update_rollups(B) on the main table
WriterMain ==
    /\ Len(probe.main) < 2
    /\ rollups' = _update_rollups(rollups,
                                  IF probe.main = <<>> THEN probe.A ELSE probe.B, now)
    /\ probe' = [probe EXCEPT !.main = Append(@, IF @ = <<>> THEN "A" ELSE "B")]
    /\ UNCHANGED <<table, rollups0, mirror, now, inv, trackerVars, bucket, env, sideVars>>

\* _update_rollups(B) and then _update_rollups(A) on the mirror table
WriterMirror ==
    /\ Len(probe.mirror) < 2
    /\ mirror' = _update_rollups(mirror,
                                 IF probe.mirror = <<>> THEN probe.B ELSE probe.A, now)
    /\ probe' = [probe EXCEPT !.mirror = Append(@, IF @ = <<>> THEN "B" ELSE "A")]
    /\ UNCHANGED <<table, rollups, rollups0, now, inv, trackerVars, bucket, env, sideVars>>

\* time passes between the runs
OrderTick ==
    /\ now < MaxClock
    /\ now' = now + 1
    /\ UNCHANGED <<table, rollups, rollups0, mirror, inv, trackerVars, bucket, env, probe,
                   sideVars>>

OrderNext == WriterMain \/ WriterMirror \/ OrderTick

\* the rollup writer on two batches, in the order A, B and in the order B, A
SpecOrder == OrderInit /\ [][OrderNext]_vars

(***************************************************************************)
(* log-parser: one container, delivered objects of several lines           *)
(***************************************************************************)

\* the most lines drawn freely for an object
MaxLines == 2

\* the request of 12:00:00 for /, from a browser sent by a search engine
LineR1 ==
    LogLine("2024-01-15", "12:00:00", "1.2.3.4", "d1.cloudfront.net", "/",
            "https://google.com/", "Mozilla", "r1")

\* the text lines log objects are made of
LineCatalogue ==
    {LineR1,
     LogLine("2024-01-15", "12:00:00", "5.6.7.8", "d1.cloudfront.net", "/x",
             "https://google.com/", "Mozilla", "r1"),
     LogLine("2024-01-15", "12:00:00", "9.9.9.9", "www.a.io", "/p%2Fq", "-", "-", "-"),
     LogLine("2024-01-16", "12:00:00", "1.2.3.4", "B.io", "/app.CSS", "http://[a/",
             "curl", "r2"),
     "#Version: 1.0",
     "truncated\tline",
     "",
     SubSeq(LineR1, 1, Len(LineR1) - 1),
     "\t" \o LineR1}

\* the lines of the objects: up to MaxLines of any lines, and two requests around a
\* truncated line
ObjectLines ==
    UNION {[1..n -> LineCatalogue] : n \in 1..MaxLines}
    \cup {<<LineR1, "truncated\tline",
            LogLine("2024-01-15", "12:00:00", "9.9.9.9", "www.a.io", "/p%2Fq", "-", "-", "-")>>}

\* the S3 keys of the objects
ObjectKeys == {"a.io/2024/01/15/E1.gz", "b.io/E2.gz"}

RECURSIVE Join(_)
\* the content of an object: its lines, each ended by a newline
Join(lines) ==
    IF lines = <<>> THEN "" ELSE Head(lines) \o "\n" \o Join(Tail(lines))

\* the exclusion settings of the container
ObjectEnvs ==
    {DeployedEnv, [DeployedEnv EXCEPT !.EXCLUDED_EXTENSIONS = "", !.EXCLUDED_PATHS = ""]}

ObjectsInit ==
    /\ table = {}
    /\ rollups \in InitialRollups
    /\ rollups0 = rollups
    /\ mirror = <<>>
    /\ now = 0
    /\ inv = [i \in Invocations |-> Idle]
    /\ sessions = {}
    /\ req = NoneRec
    /\ resp = NoneRec
    /\ probe \in [key : ObjectKeys, lines : ObjectLines]
    /\ SideInit
    /\ bucket = (probe.key :> Join(probe.lines))
    /\ env \in ObjectEnvs

ObjectsNext ==
    \/ Invoke(1, <<probe.key>>)
    \/ GetObject(1)
    \/ BatchWrite(1)
    \/ UpdateItem(1)
    \/ Tick

\* the log parser on one object of several lines
SpecObjects == ObjectsInit /\ [][ObjectsNext]_vars

(***************************************************************************)
(* journey-tracker: the handler                                            *)
(***************************************************************************)

\* a parsed JSON object and a parsed JSON number
Obj(fields) == [type |-> "object", fields |-> fields]
Num(n) == [type |-> "number", n |-> n]

\* a JSON integer n as a value of the model, told from every str by its mark
JsonInt(n) == "<int>" \o ToString(n)
IsInt(v) == StartsWith(v, "<int>")

\* str(v) as an f-string renders it
Str(v) == IF v = NoneVal THEN "None" ELSE IF IsInt(v) THEN From(v, 5) ELSE v

\* dict.get(k, default)
Get(d, k, default) == IF k \in DOMAIN d THEN d[k] ELSE default

\* ALLOWED_DOMAINS (line 30)
ALLOWED_DOMAINS(e) == Split(e.ALLOWED_DOMAINS, ",")

\* the largest batch _handle_batch_events accepts (line 188)
max_events == 100

required_fields == <<"session_id", "event_type", "domain", "path">>

valid_types ==
    <<"session_start", "pageview", "navigation", "scroll", "time_on_page", "session_end",
      "not_found">>

optional_fields ==
    <<"referrer", "previous_path", "scroll_depth", "time_on_page", "user_agent",
      "screen_width", "screen_height", "viewport_width", "viewport_height",
      "is_ai_pattern", "matched_pattern">>

\* json.dumps of a str without characters to escape, and of an int
DumpStr(v) == "\"" \o v \o "\""
DumpInt(n) == ToString(n)

RECURSIVE DumpPairs(_)
DumpPairs(pairs) ==
    IF pairs = <<>> THEN ""
    ELSE "\"" \o Head(pairs)[1] \o "\": " \o Head(pairs)[2]
         \o (IF Len(pairs) = 1 THEN "" ELSE ", " \o DumpPairs(Tail(pairs)))

\* json.dumps of a flat dict, given as its (key, dumped value) pairs in insertion order
json_dumps(pairs) == "{" \o DumpPairs(pairs) \o "}"

\* _response (lines 43-54)
_response(status_code, body) ==
    [statusCode |-> status_code,
     headers |-> [ContentType |-> "application/json",
                  AccessControlAllowOrigin |-> "*",
                  AccessControlAllowHeaders |-> "Content-Type",
                  AccessControlAllowMethods |-> "OPTIONS,POST"],
     body |-> json_dumps(body)]

\* _error (lines 57-58)
_error(status_code, message) == _response(status_code, <<<<"error", DumpStr(message)>>>>)

\* a tracker that accepts any event type
_validate_event_AnyType(event_data, e) ==
    LET missing == {i \in 1..Len(required_fields) :
                       required_fields[i] \notin DOMAIN event_data}
    IN  IF missing # {}
        THEN "Missing required field: " \o required_fields[Min(missing)]
        ELSE IF event_data.domain \notin Range(ALLOWED_DOMAINS(e))
        THEN "Domain not allowed: " \o Str(event_data.domain)
        ELSE NoneVal

\* _validate_event (lines 61-86): the error message, or None for a valid event
_validate_event(event_data, e) ==
    LET missing == {i \in 1..Len(required_fields) :
                       required_fields[i] \notin DOMAIN event_data}
    IN  IF missing # {}
        THEN "Missing required field: " \o required_fields[Min(missing)]
        ELSE IF event_data.domain \notin Range(ALLOWED_DOMAINS(e))
        THEN "Domain not allowed: " \o Str(event_data.domain)
        ELSE IF event_data.event_type \notin Range(valid_types)
        THEN "Invalid event type: " \o Str(event_data.event_type)
        ELSE NoneVal

\* two decimal digits
Pad2(n) == IF n < 10 THEN "0" \o ToString(n) ELSE ToString(n)

\* the first day of the calendar month the cache builder's clock runs in:
\* 2024-01-01 is day 19723 of the epoch
Jan2024 == 19723

\* strftime("%Y-%m-%d") of the day `n` days after 1970-01-01, for the days the
\* model's clocks reach: December 1969, January 1970 and January 2024
DayString(n) ==
    IF n >= Jan2024 THEN "2024-01-" \o Pad2(n - Jan2024 + 1)
    ELSE IF n >= 0 THEN "1970-01-" \o Pad2(n + 1)
    ELSE "1969-12-" \o Pad2(32 + n)

\* datetime.utcnow().isoformat() at `clock` whole seconds into the epoch
IsoFormat(clock) ==
    DayString(clock \div 86400) \o "T" \o Pad2((clock % 86400) \div 3600) \o ":"
    \o Pad2((clock \div 60) % 60) \o ":" \o Pad2(clock % 60)

\* lines 97-98: the client's value when it is truthy, the server's otherwise
OrElse(event_data, k, fallback) ==
    IF k \in DOMAIN event_data /\ Truthy(event_data[k]) THEN event_data[k] ELSE fallback

\* a tracker that partitions the session table by domain
SessionItem_DomainPartition(session_id, event_type, domain, path, timestamp, event_id, date, ttl) ==
    [PK |-> "SESSION#" \o Str(domain),
     SK |-> "EVENT#" \o Str(timestamp) \o "#" \o Str(event_id),
     GSI1PK |-> "DOMAIN#" \o Str(domain) \o "#DATE#" \o date,
     GSI1SK |-> "SESSION#" \o Str(session_id),
     GSI2PK |-> "DOMAIN#" \o Str(domain) \o "#PATH#" \o Str(path),
     GSI2SK |-> timestamp,
     session_id |-> session_id,
     event_type |-> event_type,
     domain |-> domain,
     path |-> path,
     timestamp |-> timestamp,
     ttl |-> ttl]

\* lines 109-122: the item of the required attributes
SessionItem(session_id, event_type, domain, path, timestamp, event_id, date, ttl) ==
    [PK |-> "SESSION#" \o Str(session_id),
     SK |-> "EVENT#" \o Str(timestamp) \o "#" \o Str(event_id),
     GSI1PK |-> "DOMAIN#" \o Str(domain) \o "#DATE#" \o date,
     GSI1SK |-> "SESSION#" \o Str(session_id),
     GSI2PK |-> "DOMAIN#" \o Str(domain) \o "#PATH#" \o Str(path),
     GSI2SK |-> timestamp,
     session_id |-> session_id,
     event_type |-> event_type,
     domain |-> domain,
     path |-> path,
     timestamp |-> timestamp,
     ttl |-> ttl]

\* lines 124-140: the optional attributes that are present and not None
OptionalItem(event_data) ==
    [f \in {f \in Range(optional_fields) \cap DOMAIN event_data : event_data[f] # NoneVal}
        |-> event_data[f]]

\* datetime.utcnow().strftime("%Y-%m-%d")
Today(clock) == DayString(clock \div 86400)

\* lines 101-104: timestamp[:10]; an int cannot be sliced (TypeError) and gives today
DateOf(timestamp, clock) ==
    IF IsInt(timestamp) THEN Today(clock) ELSE Slice(timestamp, 0, 10)

\* lines 100-142, once timestamp and event_id are settled
BuildWith(event_data, timestamp, event_id, clock) ==
    SessionItem(event_data.session_id, event_data.event_type, event_data.domain,
                event_data.path, timestamp, event_id, DateOf(timestamp, clock),
                clock + 90 * 24 * 60 * 60)
    @@ OptionalItem(event_data)

\* _build_dynamodb_item (lines 89-142); uuid is str(uuid.uuid4())[:8]
_build_dynamodb_item(event_data, clock, uuid) ==
    BuildWith(event_data,
              OrElse(event_data, "timestamp", IsoFormat(clock) \o "Z"),
              OrElse(event_data, "event_id", uuid),
              clock)

\* lines 157-168: what validating one event leaves in errors, None for a valid
\* event; an event that is no JSON object makes the `in` of line 65 raise
EventError(event_data, e) ==
    IF event_data.type # "object" THEN "argument of type 'int' is not iterable"
    ELSE _validate_event(event_data.fields, e)

\* the positions of the events the loop of lines 156-168 rejects, and of those it puts
Rejected(events, e) == {i \in 1..Len(events) : EventError(events[i], e) # NoneVal}
Accepted(events, e) == {i \in 1..Len(events) : EventError(events[i], e) = NoneVal}

\* the k-th smallest of a set of positions
Kth(S, k) == CHOOSE i \in S : Cardinality({j \in S : j <= i}) = k

\* the errors list after the loop: the messages of the rejected events, in order
ErrorsOf(events, bad, e) ==
    [k \in 1..Cardinality(bad) |-> EventError(events[Kth(bad, k)], e)]

\* the item put for each accepted event; ids[i] is the uuid drawn for the i-th
ItemsOf(events, good, clock, ids) ==
    [i \in good |-> _build_dynamodb_item(events[i].fields, clock,
                                         IF i \in DOMAIN ids THEN ids[i] ELSE NoneVal)]

\* the rows after the puts of the loop, in order: of the items put under one
\* (PK, SK) the last one stays, and it replaces the stored row of that key
PutInOrder(rows, built) ==
    {r \in rows : \A i \in DOMAIN built : <<r.PK, r.SK>> # <<built[i].PK, built[i].SK>>}
    \cup {built[i] : i \in {i \in DOMAIN built :
                              \A j \in DOMAIN built :
                                  j > i => <<built[j].PK, built[j].SK>>
                                              # <<built[i].PK, built[i].SK>>}}

\* the loop of lines 156-168 and the flush of the batch writer
WriteAll(rows, events, good, bad, clock, ids, e) ==
    [raised |-> NoneVal,
     rows |-> PutInOrder(rows, ItemsOf(events, good, clock, ids)),
     written |-> Cardinality(good),
     errors |-> ErrorsOf(events, bad, e)]

\* a tracker that does not look at SESSIONS_TABLE before it writes
_write_events_Unchecked(rows, events, clock, ids, e) ==
    WriteAll(rows, events, Accepted(events, e), Rejected(events, e), clock, ids, e)

\* _write_events (lines 145-170): the rows left, the summary, and what it raised
_write_events(rows, events, clock, ids, e) ==
    IF ~Truthy(e.SESSIONS_TABLE)
    THEN [raised |-> "SESSIONS_TABLE environment variable not set", rows |-> rows,
          written |-> 0, errors |-> <<>>]
    ELSE WriteAll(rows, events, Accepted(events, e), Rejected(events, e), clock, ids, e)

\* what a handler hands back: a response, or the exception it let through
Returned(response, rows) == [raised |-> NoneVal, response |-> response, rows |-> rows]
Raised(message, rows) == [raised |-> message, response |-> NoneRec, rows |-> rows]

\* a tracker that answers 200 whatever _write_events reports
SingleResponse_AlwaysOk(result) ==
    Returned(_response(200, <<<<"status", DumpStr("ok")>>>>), result.rows)

\* lines 176-179, on the summary of _write_events
SingleResponse(result) ==
    IF result.raised # NoneVal THEN Raised(result.raised, result.rows)
    ELSE IF result.written = 1
    THEN Returned(_response(200, <<<<"status", DumpStr("ok")>>>>), result.rows)
    ELSE Returned(_error(400, IF result.errors # <<>> THEN result.errors[1]
                              ELSE "Unknown error"),
                  result.rows)

\* _handle_single_event (lines 173-179)
_handle_single_event(body, rows, clock, ids, e) ==
    SingleResponse(_write_events(rows, <<body>>, clock, ids, e))

\* a tracker that reports the events it was sent as written
BatchResponse_CountAll(result) ==
    Returned(_response(200, <<<<"status", DumpStr("ok")>>,
                              <<"written", DumpInt(result.written + Len(result.errors))>>,
                              <<"errors", DumpInt(Len(result.errors))>>>>),
             result.rows)

\* lines 192-199, on the summary of _write_events
BatchResponse(result) ==
    IF result.raised # NoneVal THEN Raised(result.raised, result.rows)
    ELSE Returned(_response(200, <<<<"status", DumpStr("ok")>>,
                                   <<"written", DumpInt(result.written)>>,
                                   <<"errors", DumpInt(Len(result.errors))>>>>),
                  result.rows)

\* _handle_batch_events (lines 182-199)
_handle_batch_events(body, rows, clock, ids, e) ==
    IF body.type # "object" THEN Raised("'int' object has no attribute 'get'", rows)
    ELSE IF Get(body.fields, "events", <<>>) = <<>>
    THEN Returned(_error(400, "No events provided"), rows)
    ELSE IF Len(body.fields.events) > max_events
    THEN Returned(_error(400, "Maximum 100 events per batch"), rows)
    ELSE BatchResponse(_write_events(rows, body.fields.events, clock, ids, e))

\* lines 220-224: the body text, "{}" without a body, base64-decoded when flagged
BodyStr(event) ==
    IF "body" \notin DOMAIN event THEN [kind |-> "json", value |-> Obj(<<>>)]
    ELSE IF Get(event, "isBase64Encoded", FALSE) THEN event.body.inner
    ELSE event.body

\* line 224 raises (binascii.Error): the flagged body is no base64 text
DecodeRaises(event) ==
    /\ "body" \in DOMAIN event
    /\ Get(event, "isBase64Encoded", FALSE)
    /\ event.body.kind = "notbase64"

\* line 227 succeeds: the text is empty or is JSON
Loads(body_str) == body_str.kind \in {"empty", "json"}

\* line 227: json.loads(body_str) if body_str else {}
Body(body_str) == IF body_str.kind = "empty" THEN Obj(<<>>) ELSE body_str.value

\* lines 231-237
Route(path, body, rows, clock, ids, e) ==
    IF path = "/t" THEN _handle_single_event(body, rows, clock, ids, e)
    ELSE IF path = "/t/batch" THEN _handle_batch_events(body, rows, clock, ids, e)
    ELSE Returned(_error(404, "Not found"), rows)

\* a tracker whose last resort answers in plain text, without the CORS headers
Caught_PlainText(out) ==
    IF out.raised # NoneVal
    THEN Returned([statusCode |-> 500, headers |-> [ContentType |-> "text/plain"],
                   body |-> "Internal error: " \o out.raised], out.rows)
    ELSE out

\* lines 239-241: an exception becomes a 500
Caught(out) ==
    IF out.raised # NoneVal
    THEN Returned(_error(500, "Internal error: " \o out.raised), out.rows)
    ELSE out

\* a tracker that looks at the path before it looks at the method
lambda_handler_PathFirst(event, rows, clock, ids, e) ==
    IF event.rawPath \notin {"/t", "/t/batch"} THEN Returned(_error(404, "Not found"), rows)
    ELSE IF event.method = "OPTIONS" THEN Returned(_response(200, <<>>), rows)
    ELSE IF event.method # "POST" THEN Returned(_error(405, "Method not allowed"), rows)
    ELSE IF DecodeRaises(event) THEN Caught(Raised("Incorrect padding", rows))
    ELSE IF ~Loads(BodyStr(event)) THEN Returned(_error(400, "Invalid JSON body"), rows)
    ELSE Caught(Route(event.rawPath, Body(BodyStr(event)), rows, clock, ids, e))

\* lambda_handler (lines 202-241) on the rows of the session table
lambda_handler(event, rows, clock, ids, e) ==
    IF event.method = "OPTIONS" THEN Returned(_response(200, <<>>), rows)
    ELSE IF event.method # "POST" THEN Returned(_error(405, "Method not allowed"), rows)
    ELSE IF DecodeRaises(event) THEN Caught(Raised("Incorrect padding", rows))
    ELSE IF ~Loads(BodyStr(event)) THEN Returned(_error(400, "Invalid JSON body"), rows)
    ELSE Caught(Route(event.rawPath, Body(BodyStr(event)), rows, clock, ids, e))

(***************************************************************************)
(* journey-tracker: requests answered one after the other                  *)
(***************************************************************************)

\* the requests answered in a behaviour
MaxRequests == 2

\* the values str(uuid.uuid4())[:8] may take
Uuids == {"0a1b2c3d", "4e5f6a7b"}

\* the number of requests answered so far
Handled == IF req = NoneRec THEN 0 ELSE req.n

\* the events lambda_handler hands to _write_events for a request
Submitted(event) ==
    IF event.method # "POST" \/ DecodeRaises(event) THEN <<>>
    ELSE IF ~Loads(BodyStr(event)) THEN <<>>
    ELSE IF event.rawPath = "/t" THEN <<Body(BodyStr(event))>>
    ELSE IF /\ event.rawPath = "/t/batch"
            /\ Body(BodyStr(event)).type = "object"
            /\ Len(Get(Body(BodyStr(event)).fields, "events", <<>>)) <= max_events
    THEN Get(Body(BodyStr(event)).fields, "events", <<>>)
    ELSE <<>>

\* the events of a list for which line 98 draws a uuid
DrawsUuid(events, e) ==
    {i \in 1..Len(events) :
        /\ EventError(events[i], e) = NoneVal
        /\ OrElse(events[i].fields, "event_id", NoneVal) = NoneVal}

\* the response is returned and the batch writer has flushed
Answer(event, out) ==
    /\ sessions' = out.rows
    /\ resp' = out.response
    /\ req' = [n |-> Handled + 1, event |-> event]

\* one invocation of lambda_handler
Handle(event) ==
    /\ Handled < MaxRequests
    /\ \E ids \in [DrawsUuid(Submitted(event), env) -> Uuids] :
          Answer(event, lambda_handler(event, sessions, now, ids, env))
    /\ UNCHANGED <<table, rollups, now, inv, fixedVars>>

\* the events clients send
Page ==
    [session_id |-> "s1", event_type |-> "pageview", domain |-> "a.io", path |-> "/",
     timestamp |-> "2024-01-15T12:00:00Z", event_id |-> "e1",
     referrer |-> "https://google.com/", scroll_depth |-> NoneVal, user_agent |-> ""]

Start == [session_id |-> "s1", event_type |-> "session_start", domain |-> "b.io", path |-> "/x"]

NotFound ==
    [session_id |-> "s2", event_type |-> "not_found", domain |-> "a.io", path |-> "/y",
     timestamp |-> NoneVal, event_id |-> "", matched_pattern |-> "/docs/"]

MissingPath == [session_id |-> "s1", event_type |-> "pageview", domain |-> "a.io"]

Evil == [Start EXCEPT !.domain = "evil.example"]

Click == [Page EXCEPT !.event_type = "click"]

NullType == [Start EXCEPT !.event_type = NoneVal]

NoDomain == [Start EXCEPT !.domain = ""]

\* timestamps that are no ISO-8601 text: an epoch number, and a word
EpochStamp == ("timestamp" :> JsonInt(1705320000)) @@ Start

WordStamp == ("timestamp" :> "yesterday") @@ Start

\* a batch of n distinct page views
Pages(n) == [i \in 1..n |-> Obj([Page EXCEPT !.event_id = "e" \o ToString(i)])]

\* the event lists of the batches clients send
EventLists ==
    UNION {[1..n -> {Obj(Page), Obj(Start), Obj(MissingPath), Obj(Evil)}] : n \in 0..2}
    \cup {<<Obj(Page), Obj(MissingPath), Obj(Start)>>, <<Obj(Click), Num(5)>>,
          Pages(max_events), Pages(max_events + 1)}

\* a JSON text and the value it parses to
Json(value) == [kind |-> "json", value |-> value]

\* the body texts of the requests
Bodies ==
    {Json(Obj(ev)) : ev \in {Page, Start, NotFound, MissingPath, Evil, Click, NullType,
                              NoDomain, EpochStamp, WordStamp}}
    \cup {Json(Num(5)), Json(Obj(<<>>)), [kind |-> "invalid"], [kind |-> "empty"]}
    \cup {Json(Obj([events |-> evs])) : evs \in EventLists}

\* the API Gateway events: method, path, body text, base64 flag
Requests ==
    {[method |-> "POST", rawPath |-> q, body |-> b] : q \in {"/t", "/t/batch"}, b \in Bodies}
    \cup {[method |-> "POST", rawPath |-> "/t",
           body |-> [kind |-> "base64", inner |-> Json(Obj(Page))],
           isBase64Encoded |-> TRUE],
          [method |-> "POST", rawPath |-> "/t", body |-> [kind |-> "notbase64"],
           isBase64Encoded |-> TRUE],
          [method |-> "POST", rawPath |-> "/t/batch"],
          [method |-> "POST", rawPath |-> "/health", body |-> Json(Obj(Page))],
          [method |-> "OPTIONS", rawPath |-> "/t"],
          [method |-> "GET", rawPath |-> "/t", body |-> Json(Obj(Page))],
          [method |-> "OPTIONS", rawPath |-> "/health", body |-> [kind |-> "invalid"]],
          [method |-> "DELETE", rawPath |-> "/health", body |-> [kind |-> "invalid"]],
          [method |-> "GET", rawPath |-> "/t/batch", body |-> [kind |-> "notbase64"],
           isBase64Encoded |-> TRUE],
          [method |-> "", rawPath |-> "/t", body |-> Json(Obj(Page))],
          [method |-> "POST", rawPath |-> "/health", body |-> [kind |-> "invalid"]],
          [method |-> "POST", rawPath |-> "/T", body |-> Json(Obj(Page))]}

\* the allow-lists a deployment may carry
TrackerEnvs ==
    {[DeployedEnv EXCEPT !.ALLOWED_DOMAINS = x] : x \in {"a.io,b.io", "a.io", ""}}

TrackerInit ==
    /\ table = {}
    /\ rollups = <<>>
    /\ rollups0 = <<>>
    /\ mirror = <<>>
    /\ now = 0
    /\ inv = [i \in Invocations |-> Idle]
    /\ sessions = {}
    /\ req = NoneRec
    /\ resp = NoneRec
    /\ bucket = <<>>
    /\ env \in TrackerEnvs
    /\ probe = NoneRec
    /\ SideInit

TrackerNext ==
    \/ \E event \in Requests : Handle(event)
    \/ Tick

\* the journey tracker answering requests
SpecTracker == TrackerInit /\ [][TrackerNext]_vars

(***************************************************************************)
(* cache-builder: the projections of the rollup rows                       *)
(***************************************************************************)

\* Cache TTL in hours (line 30)
CACHE_TTL_HOURS == 2

\* the window of _get_date_range(7) (line 243)
days == 7

\* the rows kept by _build_pages_cache and _build_referrers_cache (lines 84, 121)
limit == 10

\* DOMAIN_LIST (line 27)
DOMAIN_LIST(e) == Split(e.DOMAIN_LIST, ",")

\* the characters of the rollup sort keys, in byte order
Alphabet == "#-./0123456789:ABCDEFGHIJKLMNOPQRSTUVWXYZ_abcdefghijklmnopqrstuvwxyz"

\* the place of each character in the byte order
Rank == [c \in {Char(Alphabet, i) : i \in 1..Len(Alphabet)} |-> Find(Alphabet, c)]

\* a < b in the byte order DynamoDB sorts sort keys by
LexLess(a, b) ==
    LET n == IF Len(a) < Len(b) THEN Len(a) ELSE Len(b)
        diff == {i \in 1..n : Char(a, i) # Char(b, i)}
    IN  IF diff = {} THEN Len(a) < Len(b)
        ELSE Rank[Char(a, Min(diff))] < Rank[Char(b, Min(diff))]

\* the elements of S as a sequence, each after the before[s] elements before it
Ascending(S, before) == [k \in 1..Cardinality(S) |-> CHOOSE s \in S : before[s] = k - 1]

\* Generate list of date strings for the last N days, ascending
_get_date_range(clock, n) == [i \in 1..n |-> DayString(clock \div 86400 - n + i)]

\* Table.get_item: the item, {} when there is none
get_item(rl, K) == IF K \in DOMAIN rl THEN rl[K] ELSE <<>>

\* Table.query(PK = pk, SK begins_with prefix), every page of it: the sort keys of
\* the items, ascending
query(rl, pk, prefix) ==
    LET sks == {K[2] : K \in {X \in DOMAIN rl : X[1] = pk /\ StartsWith(X[2], prefix)}}
    IN  Ascending(sks, [s \in sks |->
                          Cardinality({t \in sks : LexLess(From(t, Len(prefix)),
                                                            From(s, Len(prefix)))})])

RECURSIVE SumOver(_, _)
\* the sum of f over the finite set S
SumOver(f, S) ==
    IF S = {} THEN 0
    ELSE LET x == CHOOSE y \in S : TRUE IN f[x] + SumOver(f, S \ {x})

\* Build stats cache from rollups; the reads of the dates in `failed` raise
_build_stats_cache(rl, domain, dates, failed) ==
    LET item(date) == IF date \in failed THEN <<>>
                      ELSE get_item(rl, <<"ROLLUP#" \o domain, "STATS#" \o date>>)
        daily_stats == [date \in {dates[i] : i \in 1..Len(dates)} |->
                           Get(item(date), "requests", 0)]
        unique_ips == UNION {Get(item(dates[i]), "unique_ips", {}) : i \in 1..Len(dates)}
    IN  [total_requests |-> SumOver(daily_stats, DOMAIN daily_stats),
         unique_visitors |-> Cardinality(unique_ips),
         daily |-> daily_stats]

RECURSIVE Counted(_, _, _, _, _)
\* the (name, count) pairs the loops of lines 88-115 meet, date by date and item by
\* item; a date whose query raises contributes nothing
Counted(rl, domain, family, dates, failed) ==
    IF dates = <<>> THEN <<>>
    ELSE LET date == Head(dates)
             prefix == family \o date \o "#"
             sks == IF date \in failed THEN <<>>
                    ELSE query(rl, "ROLLUP#" \o domain, prefix)
         IN  [i \in 1..Len(sks) |->
                 <<From(sks[i], Len(prefix)),
                   Get(rl[<<"ROLLUP#" \o domain, sks[i]>>], "count", 0)>>]
             \o Counted(rl, domain, family, Tail(dates), failed)

\* a defaultdict(int) after the additions of `pairs`: its keys in insertion order,
\* each with its total
Totals(pairs) ==
    LET names == Distinct([i \in 1..Len(pairs) |-> pairs[i][1]])
        hits(n) == {i \in 1..Len(pairs) : pairs[i][1] = n}
    IN  [k \in 1..Len(names) |->
            <<names[k], SumOver([i \in hits(names[k]) |-> pairs[i][2]], hits(names[k]))>>]

\* sorted(items, key=count, reverse=True): stable, equal counts keep their order
SortedByCount(items) ==
    LET before(i) == {j \in 1..Len(items) :
                         \/ items[j][2] > items[i][2]
                         \/ items[j][2] = items[i][2] /\ j < i}
    IN  [k \in 1..Len(items) |->
            items[CHOOSE i \in 1..Len(items) : Cardinality(before(i)) = k - 1]]

\* the first `n` of seq (seq[:n])
Top(seq, n) == SubSeq(seq, 1, IF Len(seq) < n THEN Len(seq) ELSE n)

\* Build pages cache from rollups
_build_pages_cache(rl, domain, dates, failed) ==
    LET sorted_pages == Top(SortedByCount(Totals(Counted(rl, domain, "PAGE#", dates, failed))),
                            limit)
    IN  [pages |-> [k \in 1..Len(sorted_pages) |->
                       [path |-> sorted_pages[k][1], count |-> sorted_pages[k][2]]]]

\* Build referrers cache from rollups
_build_referrers_cache(rl, domain, dates, failed) ==
    LET sorted_refs == Top(SortedByCount(Totals(Counted(rl, domain, "REF#", dates, failed))),
                           limit)
    IN  [referrers |-> [k \in 1..Len(sorted_refs) |->
                           [domain |-> sorted_refs[k][1], count |-> sorted_refs[k][2]]]]

\* the keys of hourly_counts (line 160), in insertion order
HourKeys == [h \in 1..24 |-> Pad2(h - 1)]

\* Build hourly traffic cache from rollups
_build_hours_cache(rl, domain, dates, failed) ==
    LET pairs == Counted(rl, domain, "HOUR#", dates, failed)
        hits(hour) == {i \in 1..Len(pairs) : pairs[i][1] = hour}
        hourly_counts == [hour \in {HourKeys[h] : h \in 1..24} |->
                             SumOver([i \in hits(hour) |-> pairs[i][2]], hits(hour))]
        most == CHOOSE h \in 1..24 :
                    /\ \A g \in 1..24 : hourly_counts[HourKeys[g]] <= hourly_counts[HourKeys[h]]
                    /\ \A g \in 1..(h - 1) :
                           hourly_counts[HourKeys[g]] < hourly_counts[HourKeys[h]]
    IN  [hourly |-> hourly_counts,
         peak_hour |-> HourKeys[most],
         total |-> SumOver(hourly_counts, DOMAIN hourly_counts)]

\* the cache types in the order lambda_handler builds them (lines 256-266)
CacheTypes == <<"stats", "pages", "referrers", "hours">>

\* the build of one cache type (lines 256, 259, 262, 265)
Build(cache_type, rl, domain, dates, failed) ==
    CASE cache_type = "stats" -> _build_stats_cache(rl, domain, dates, failed)
      [] cache_type = "pages" -> _build_pages_cache(rl, domain, dates, failed)
      [] cache_type = "referrers" -> _build_referrers_cache(rl, domain, dates, failed)
      [] cache_type = "hours" -> _build_hours_cache(rl, domain, dates, failed)

\* a cache builder that files its rows with the rollups
_write_cache_UnderRollup(c, domain, cache_type, data, from_date, to_date, clock) ==
    (<<"ROLLUP#" \o domain, cache_type>> :>
        [PK |-> "ROLLUP#" \o domain, SK |-> cache_type, data |-> Json(data),
         from_date |-> from_date, to_date |-> to_date,
         built_at |-> IsoFormat(clock) \o "+00:00",
         ttl |-> clock + CACHE_TTL_HOURS * 3600]) @@ c

\* a cache builder that puts the time of the build into the data blob
_write_cache_Stamped(c, domain, cache_type, data, from_date, to_date, clock) ==
    (<<"CACHE#" \o domain, cache_type>> :>
        [PK |-> "CACHE#" \o domain, SK |-> cache_type,
         data |-> Json([data |-> data, built_at |-> IsoFormat(clock)]),
         from_date |-> from_date, to_date |-> to_date,
         built_at |-> IsoFormat(clock) \o "+00:00",
         ttl |-> clock + CACHE_TTL_HOURS * 3600]) @@ c

\* Write cache item to DynamoDB: the cache rows afterwards
_write_cache(c, domain, cache_type, data, from_date, to_date, clock) ==
    (<<"CACHE#" \o domain, cache_type>> :>
        [PK |-> "CACHE#" \o domain, SK |-> cache_type, data |-> Json(data),
         from_date |-> from_date, to_date |-> to_date,
         built_at |-> IsoFormat(clock) \o "+00:00",
         ttl |-> clock + CACHE_TTL_HOURS * 3600]) @@ c

(***************************************************************************)
(* cache-builder: lambda_handler, one action per cache row                 *)
(***************************************************************************)

\* the scheduler starts the cache builder at most this many times
MaxRuns == 2

\* at most this many store calls of the cache builder fail in one behaviour
MaxCacheFailures == 1

\* the clock passes at most this many midnights
MaxDays == 1

\* the clock advances at most this many hours within a day
MaxHours == 1

\* 2024-01-15T00:00:00Z
StartOfDay == (Jan2024 + 14) * 86400

\* the rollup sort-key family each cache type is built from
Family(cache_type) ==
    CASE cache_type = "stats" -> "STATS#"
      [] cache_type = "pages" -> "PAGE#"
      [] cache_type = "referrers" -> "REF#"
      [] cache_type = "hours" -> "HOUR#"

\* the rollup rows the build of one cache type asks the store for: the rows of the
\* domain and the family on the dates (lines 61-63, 90-92, 127-129, 164-166)
RowsRead(rl, cache_type, domain, dates) ==
    LET asked == {K \in DOMAIN rl :
                     /\ K[1] = "ROLLUP#" \o domain
                     /\ \E i \in 1..Len(dates) :
                            IF cache_type = "stats" THEN K[2] = "STATS#" \o dates[i]
                            ELSE StartsWith(K[2], Family(cache_type) \o dates[i] \o "#")}
    IN  [K \in asked |-> rl[K]]

\* the cache builder before its first start.  History fields: runs and failures
\* count the starts and the failed store calls, source remembers for each cache
\* row the rollup rows its last build asked for and whether every read succeeded
NotStarted ==
    [pc |-> "idle", domains |-> <<>>, dates |-> <<>>, d |-> 0, step |-> 0,
     results |-> <<>>, response |-> NoneRec, runs |-> 0, failures |-> 0,
     source |-> <<>>]

\* lines 231-248: the configuration checks and the date range
StartBuild ==
    /\ job.pc \in {"idle", "returned"}
    /\ job.runs < MaxRuns
    /\ LET domains == StrippedNonEmpty(DOMAIN_LIST(env))
           started == [job EXCEPT !.runs = @ + 1, !.results = <<>>]
       IN  job' = IF ~Truthy(env.TABLE_NAME)
                  THEN [started EXCEPT !.pc = "returned",
                            !.response = [statusCode |-> 500,
                                          body |-> "TABLE_NAME not configured"]]
                  ELSE IF domains = <<>>
                  THEN [started EXCEPT !.pc = "returned",
                            !.response = [statusCode |-> 200,
                                          body |-> "No domains to process"]]
                  ELSE [started EXCEPT !.pc = "building", !.domains = domains,
                            !.dates = _get_date_range(now, days), !.d = 1, !.step = 1,
                            !.response = NoneRec]
    /\ UNCHANGED <<table, rollups, now, inv, trackerVars, inputVars, cache, auth, clients>>

\* a cache builder that gives up on the domains to come when one has failed
NextDomain_StopOnError(j, result) ==
    LET results == (j.domains[j.d] :> result) @@ j.results IN
    IF j.d < Len(j.domains) /\ result = "success"
    THEN [j EXCEPT !.d = @ + 1, !.step = 1, !.results = results]
    ELSE [j EXCEPT !.pc = "returned", !.results = results,
              !.response = [statusCode |-> 200,
                            body |-> Json([message |-> "Cache build complete",
                                           results |-> results])]]

\* the job once the work on its current domain ended with `result` (lines 268-283)
NextDomain(j, result) ==
    LET results == (j.domains[j.d] :> result) @@ j.results IN
    IF j.d < Len(j.domains)
    THEN [j EXCEPT !.d = @ + 1, !.step = 1, !.results = results]
    ELSE [j EXCEPT !.pc = "returned", !.results = results,
              !.response = [statusCode |-> 200,
                            body |-> Json([message |-> "Cache build complete",
                                           results |-> results])]]

\* the job once the cache row of its current step is written
Advance(j) ==
    IF j.step < Len(CacheTypes) THEN [j EXCEPT !.step = @ + 1]
    ELSE NextDomain(j, "success")

\* one _build_*_cache and its _write_cache, the reads of `failed` raising
BuildRow(failed) ==
    LET domain == job.domains[job.d]
        cache_type == CacheTypes[job.step]
    IN  /\ cache' = _write_cache(cache, domain, cache_type,
                                 Build(cache_type, rollups, domain, job.dates, failed),
                                 job.dates[1], job.dates[Len(job.dates)], now)
        /\ job' = Advance([job EXCEPT
                              !.failures = @ + Cardinality(failed),
                              !.source = (<<"CACHE#" \o domain, cache_type>> :>
                                             [rows |-> RowsRead(rollups, cache_type, domain,
                                                                job.dates),
                                              clean |-> failed = {}]) @@ @])
        /\ UNCHANGED <<table, rollups, now, inv, trackerVars, inputVars, auth, clients>>

\* lines 256-266, one cache row, every read succeeding
BuildCache ==
    /\ job.pc = "building"
    /\ BuildRow({})

\* lines 256-266, one cache row, the rollup read of one date raising (swallowed at
\* lines 73-75, 114-115, 151-152, 190-191)
BuildCacheReadFails ==
    /\ job.pc = "building"
    /\ job.failures < MaxCacheFailures
    /\ \E i \in 1..Len(job.dates) : BuildRow({job.dates[i]})

\* put_item raises: the rest of the domain is skipped (lines 271-273)
PutCacheFails ==
    /\ job.pc = "building"
    /\ job.failures < MaxCacheFailures
    /\ job' = NextDomain([job EXCEPT !.failures = @ + 1],
                         "error: ProvisionedThroughputExceededException")
    /\ UNCHANGED <<table, rollups, now, inv, trackerVars, inputVars, cache, auth, clients>>

\* an hour passes between two runs of the cache builder
Hour ==
    /\ job.pc # "building"
    /\ (now % 86400) \div 3600 < MaxHours
    /\ now' = now + 3600
    /\ UNCHANGED <<table, rollups, inv, trackerVars, fixedVars>>

\* the clock reaches the next midnight between two runs of the cache builder
Midnight ==
    /\ job.pc # "building"
    /\ now \div 86400 < StartOfDay \div 86400 + MaxDays
    /\ now' = (now \div 86400 + 1) * 86400
    /\ UNCHANGED <<table, rollups, inv, trackerVars, fixedVars>>

\* rollup rows of a.io and b.io on the days around 2024-01-15
Week ==
    [K \in {<<"ROLLUP#a.io", "STATS#2024-01-08">>, <<"ROLLUP#a.io", "STATS#2024-01-09">>,
            <<"ROLLUP#a.io", "STATS#2024-01-15">>, <<"ROLLUP#b.io", "STATS#2024-01-15">>}
        |-> [requests |-> IF K[2] = "STATS#2024-01-15" THEN 5 ELSE 2,
             unique_ips |-> IF K[1] = "ROLLUP#b.io" THEN {"7.7.7.7"}
                            ELSE {"1.2.3.4", "9.9.9." \o From(K[2], 15)}, ttl |-> 7]]
    @@ [K \in {<<"ROLLUP#a.io", "PAGE#2024-01-08#/old">>, <<"ROLLUP#a.io", "PAGE#2024-01-09#/">>,
               <<"ROLLUP#a.io", "PAGE#2024-01-15#/">>, <<"ROLLUP#a.io", "PAGE#2024-01-15#/x">>,
               <<"ROLLUP#a.io", "REF#2024-01-09#google.com">>,
               <<"ROLLUP#a.io", "REF#2024-01-15#bing.com">>,
               <<"ROLLUP#a.io", "HOUR#2024-01-09#12">>, <<"ROLLUP#a.io", "HOUR#2024-01-15#09">>,
               <<"ROLLUP#a.io", "HOUR#2024-01-15#12">>, <<"ROLLUP#a.io", "HOUR#2024-01-15#">>,
               <<"ROLLUP#b.io", "PAGE#2024-01-15#/b">>}
        |-> [count |-> IF K[2] = "PAGE#2024-01-15#/x" THEN 3 ELSE 2, ttl |-> 7]]

\* eleven pages of a.io on 2024-01-15, some of them visited equally often
Busy ==
    [K \in {<<"ROLLUP#a.io", "PAGE#2024-01-15#/p" \o Pad2(n)>> : n \in 1..(limit + 1)}
        |-> [count |-> IF K[2] = "PAGE#2024-01-15#/p03" THEN 1 ELSE 2, ttl |-> 7]]
    @@ (<<"ROLLUP#a.io", "STATS#2024-01-15">> :> [requests |-> 21, ttl |-> 7])

\* the ROLLUP# rows that may exist before the cache builder first runs
CacheRollups == {Week, Busy}

\* the batch B the rollup writer is run on while the cache builder works, a
\* request of 13:00:00 to a.io on 2024-01-15, after a batch A it has been run on
CacheBatches ==
    [A |-> <<CHOOSE e \in EventPool : e.request_id = "r1">>,
     B |-> <<CHOOSE e \in EventPool : e.request_id = "r4">>,
     main |-> <<"A">>, mirror |-> <<"B", "A">>]

CacheInit ==
    /\ table = {}
    /\ rollups \in CacheRollups
    /\ rollups0 = rollups
    /\ mirror = <<>>
    /\ now = StartOfDay
    /\ inv = [i \in Invocations |-> Idle]
    /\ sessions = {}
    /\ req = NoneRec
    /\ resp = NoneRec
    /\ bucket = <<>>
    /\ env = [DeployedEnv EXCEPT !.DOMAIN_LIST = "a.io, "]
    /\ probe = CacheBatches
    /\ cache = <<>>
    /\ job = NotStarted
    /\ auth = NoneRec
    /\ clients = NoneRec

CacheNext ==
    \/ StartBuild
    \/ BuildCache
    \/ BuildCacheReadFails
    \/ PutCacheFails
    \/ WriterMain
    \/ Hour
    \/ Midnight

\* the cache builder run by its schedule while the rollup writer adds to the rollups
SpecCache == CacheInit /\ [][CacheNext]_vars

(***************************************************************************)
(* journey-tracker and cache-builder under incomplete configuration        *)
(***************************************************************************)

\* the deployments: each of SESSIONS_TABLE and TABLE_NAME set or missing
ConfigEnvs ==
    {[DeployedEnv EXCEPT !.SESSIONS_TABLE = x[1], !.TABLE_NAME = x[2]] :
        x \in {"", "sessions"} \X {"", "events"}}

\* requests with no event, one event, several, as many as a batch may hold, and more
ConfigRequests ==
    {[method |-> "POST", rawPath |-> "/t", body |-> Json(Obj(ev))] : ev \in {Page, Evil}}
    \cup {[method |-> "POST", rawPath |-> "/t/batch", body |-> Json(Obj([events |-> evs]))] :
             evs \in {<<>>, <<Obj(Page), Obj(Start)>>, Pages(max_events),
                      Pages(max_events + 1)}}
    \cup {[method |-> "POST", rawPath |-> "/t/batch"], [method |-> "OPTIONS", rawPath |-> "/t"]}

ConfigInit ==
    /\ table = {}
    /\ rollups = Week
    /\ rollups0 = rollups
    /\ mirror = <<>>
    /\ now = StartOfDay
    /\ inv = [i \in Invocations |-> Idle]
    /\ sessions = {}
    /\ req = NoneRec
    /\ resp = NoneRec
    /\ bucket = <<>>
    /\ env \in ConfigEnvs
    /\ probe = NoneRec
    /\ cache = <<>>
    /\ job = NotStarted
    /\ auth = NoneRec
    /\ clients = NoneRec

ConfigNext ==
    \/ \E event \in ConfigRequests : Handle(event)
    \/ StartBuild
    \/ BuildCache

\* the tracker and the cache builder deployed with or without their table names
SpecConfig == ConfigInit /\ [][ConfigNext]_vars

(***************************************************************************)
(* log-parser, journey-tracker and cache-builder side by side              *)
(***************************************************************************)

\* the requests the tracker answers while the other two functions run
SharedRequests ==
    {[method |-> "POST", rawPath |-> "/t", body |-> Json(Obj(Page))],
     [method |-> "POST", rawPath |-> "/t/batch",
      body |-> Json(Obj([events |-> <<Obj(Page), Obj(Start)>>]))]}

\* the log object the parser is delivered while the other two functions run
SharedEnvelope == <<"a.io/E2.gz">>

SharedInit ==
    /\ table = {}
    /\ rollups = Week
    /\ rollups0 = rollups
    /\ mirror = <<>>
    /\ now = StartOfDay
    /\ inv = [i \in Invocations |-> Idle]
    /\ sessions = {}
    /\ req = NoneRec
    /\ resp = NoneRec
    /\ bucket = Bucket
    /\ env = DeployedEnv
    /\ probe = NoneRec
    /\ cache = <<>>
    /\ job = NotStarted
    /\ auth = NoneRec
    /\ clients = NoneRec

SharedNext ==
    \/ Invoke(1, SharedEnvelope)
    \/ GetObject(1)
    \/ BatchWrite(1)
    \/ UpdateItem(1)
    \/ \E event \in SharedRequests : Handle(event)
    \/ StartBuild
    \/ BuildCache

\* the three functions of the platform at work on their two tables
SpecShared == SharedInit /\ [][SharedNext]_vars

(***************************************************************************)
(* log-parser: the cached AWS clients of one process                       *)
(***************************************************************************)

\* the threads that may run handler code in one process
NumThreads == 2

Threads == 1..NumThreads

\* each thread calls an accessor at most this many times
MaxCalls == 2

\* the module globals behind _get_dynamodb and _get_s3_client (lines 43-44)
Accessors == {"_dynamodb", "_s3_client"}

\* None, where a client is expected; the clients constructed are numbered from 1
NoClient == 0

\* an accessor that constructs a client at every call
IsNone_Always(client) == TRUE

\* lines 49 and 56: `if _dynamodb is None`
IsNone(client) == client = NoClient

\* cached holds the globals, made counts the clients constructed for each of them.
\* History fields: returned collects the clients the calls returned, calls counts
\* the calls of a thread, overlapped tells whether a call to an accessor started
\* while another call to the same accessor was running.
ClientsInit ==
    [cached |-> [a \in Accessors |-> NoClient],
     made |-> [a \in Accessors |-> 0],
     thread |-> [t \in Threads |-> [pc |-> "idle", accessor |-> NoneVal, calls |-> 0]],
     returned |-> [a \in Accessors |-> {}],
     overlapped |-> FALSE]

\* a thread enters _get_dynamodb or _get_s3_client (lines 47, 54)
EnterAccessor(t, a) ==
    /\ clients.thread[t].pc = "idle"
    /\ clients.thread[t].calls < MaxCalls
    /\ clients' = [clients EXCEPT
           !.thread[t] = [pc |-> "test", accessor |-> a, calls |-> @.calls + 1],
           !.overlapped = @ \/ \E u \in Threads \ {t} :
                                   /\ clients.thread[u].pc # "idle"
                                   /\ clients.thread[u].accessor = a]
    /\ UNCHANGED <<table, rollups, now, inv, trackerVars, inputVars, cache, job, auth>>

\* the test of lines 49 and 56
TestNone(t) ==
    /\ clients.thread[t].pc = "test"
    /\ clients' = [clients EXCEPT
           !.thread[t].pc = IF IsNone(clients.cached[clients.thread[t].accessor])
                            THEN "construct" ELSE "return"]
    /\ UNCHANGED <<table, rollups, now, inv, trackerVars, inputVars, cache, job, auth>>

\* lines 50 and 57: a client is constructed and assigned to the global
Construct(t) ==
    /\ clients.thread[t].pc = "construct"
    /\ LET a == clients.thread[t].accessor IN
       clients' = [clients EXCEPT !.made[a] = @ + 1, !.cached[a] = clients.made[a] + 1,
                                  !.thread[t].pc = "return"]
    /\ UNCHANGED <<table, rollups, now, inv, trackerVars, inputVars, cache, job, auth>>

\* lines 51 and 58: the value of the global is returned
ReturnClient(t) ==
    /\ clients.thread[t].pc = "return"
    /\ LET a == clients.thread[t].accessor IN
       clients' = [clients EXCEPT !.returned[a] = @ \cup {clients.cached[a]},
                                  !.thread[t].pc = "idle"]
    /\ UNCHANGED <<table, rollups, now, inv, trackerVars, inputVars, cache, job, auth>>

ClientsSpecInit ==
    /\ table = {}
    /\ rollups = <<>>
    /\ rollups0 = <<>>
    /\ mirror = <<>>
    /\ now = 0
    /\ inv = [i \in Invocations |-> Idle]
    /\ sessions = {}
    /\ req = NoneRec
    /\ resp = NoneRec
    /\ bucket = <<>>
    /\ env = DeployedEnv
    /\ probe = NoneRec
    /\ cache = <<>>
    /\ job = NoneRec
    /\ auth = NoneRec
    /\ clients = ClientsInit

ClientsNext ==
    \/ \E t \in Threads, a \in Accessors : EnterAccessor(t, a)
    \/ \E t \in Threads : TestNone(t)
    \/ \E t \in Threads : Construct(t)
    \/ \E t \in Threads : ReturnClient(t)

\* the accessors called by the threads of one process, one after the other or at
\* the same time
SpecClients == ClientsSpecInit /\ [][ClientsNext]_vars

(***************************************************************************)
(* analytics-auth: magic links and their verification                      *)
(***************************************************************************)

\* the lifetime of a magic link token and of an access token, in seconds
\* (lines 207, 248)
magic_link_expiry == 900

access_expiry == 86400

\* the value of the SSM parameter jwt_secret, known to the service alone
Secret == "jwt_secret"

\* jwt.encode(payload, key, "HS256"): the payload, and a signature that only the
\* holder of the key can compute for this payload
Encode(payload, key) == [payload |-> payload, sig |-> [payload |-> payload, key |-> key]]

\* Create a JWT token (lines 95-105)
_create_token(email, name, expires_in, clock) ==
    Encode([email |-> email, name |-> name, iat |-> clock, exp |-> clock + expires_in],
           Secret)

\* a service that accepts a token whatever its expiry
_verify_token_NoExpiry(token, clock) ==
    IF "sig" \notin DOMAIN token
    THEN [error |-> "Invalid token: Not enough segments"]
    ELSE IF token.sig # [payload |-> token.payload, key |-> Secret]
    THEN [error |-> "Invalid token: Signature verification failed"]
    ELSE [error |-> NoneVal, payload |-> token.payload]

\* Verify and decode a JWT token (lines 108-111), with the exceptions of jwt.decode
\* as handle_verify words them (lines 234-237)
_verify_token(token, clock) ==
    IF "sig" \notin DOMAIN token
    THEN [error |-> "Invalid token: Not enough segments"]
    ELSE IF token.sig # [payload |-> token.payload, key |-> Secret]
    THEN [error |-> "Invalid token: Signature verification failed"]
    ELSE IF token.payload.exp <= clock
    THEN [error |-> "Token expired"]
    ELSE [error |-> NoneVal, payload |-> token.payload]

\* Get admin user from DynamoDB (lines 114-119): the item, or None
_get_admin_user(admins, email) ==
    IF Lower(email) \in DOMAIN admins THEN admins[Lower(email)] ELSE NoneRec

\* the response of the service with its parsed JSON body (lines 77-92)
AuthResponse(status_code, body) == [statusCode |-> status_code, body |-> body]

AuthError(status_code, message) == AuthResponse(status_code, [error |-> message])

\* the empty string and null, where a token is expected
Blank == [blank |-> TRUE]

\* what a route handler leaves: its response and the token it has created, if any
Handed(response, created) == [response |-> response, created |-> created]

\* Send magic link email via SES (lines 120-181): the message handed to SES
_send_magic_link_email(email, magic_link, name) ==
    [to |-> email, link |-> magic_link, name |-> name]

\* POST /auth/magic-link (lines 184-219); the token leaves by email, and
\* ses.send_email raises when `ses_ok` is false
handle_magic_link(event, admins, clock, ses_ok) ==
    IF "invalid" \in DOMAIN event.body
    THEN Handed(AuthError(500, "Internal error: Expecting value"), {})
    ELSE LET email == Strip(Lower(Get(event.body.fields, "email", "")))
             admin_user == _get_admin_user(admins, email)
             generic == AuthResponse(200, [message |-> "If you are an admin, check your email"])
         IN  IF email = "" THEN Handed(AuthError(400, "Missing email"), {})
             ELSE IF admin_user = NoneRec THEN Handed(generic, {})
             ELSE IF ~Get(admin_user, "active", TRUE) THEN Handed(generic, {})
             ELSE LET name == Get(admin_user, "name", Split(email, "@")[1])
                      token == _create_token(email, name, magic_link_expiry, clock)
                  IN  IF ~ses_ok
                      THEN Handed(AuthError(500, "Internal error: MessageRejected"), {})
                      ELSE [response |-> generic, created |-> {token},
                            mail |-> {_send_magic_link_email(email, token, name)}]

\* POST /auth/verify (lines 222-260)
handle_verify(event, admins, clock) ==
    IF "invalid" \in DOMAIN event.body
    THEN Handed(AuthError(500, "Internal error: Expecting value"), {})
    ELSE LET token == Get(event.body.fields, "token", Blank)
             verified == _verify_token(token, clock)
         IN  IF token = Blank THEN Handed(AuthError(400, "Missing token"), {})
             ELSE IF verified.error # NoneVal THEN Handed(AuthError(401, verified.error), {})
             ELSE LET admin_user == _get_admin_user(admins, verified.payload.email)
                      access_token == _create_token(verified.payload.email,
                                                    verified.payload.name, access_expiry,
                                                    clock)
                  IN  IF admin_user = NoneRec \/ ~Get(admin_user, "active", TRUE)
                      THEN Handed(AuthError(401, "Unauthorized"), {})
                      ELSE Handed(AuthResponse(200,
                                      [access_token |-> access_token,
                                       user |-> [email |-> verified.payload.email,
                                                 name |-> verified.payload.name]]),
                                  {access_token})

\* the service answers at most this many requests
MaxAuthRequests == 3

\* the admin table changes at most this many times
MaxAdminChanges == 1

\* the clock advances at most this many quarters of an hour
MaxQuarters == 2

\* the admin table: ann is active by her item, bob by default
AdminUsers ==
    [e \in {"ann@x.io", "bob@x.io"} |->
        IF e = "ann@x.io" THEN [email |-> e, name |-> "Ann", active |-> TRUE]
        ELSE [email |-> e]]

\* the addresses a magic link is asked for
Emails == {"Ann@x.io ", "bob@x.io", "eve@x.io", ""}

\* the tokens a client can present: one the service has issued, one it made itself
\* for an admin with a key of its own, an issued one with a later expiry under the
\* old signature, text that is no token, and the empty string
Presentable(issued) ==
    issued
    \cup {Encode([t.payload EXCEPT !.exp = @ + access_expiry], "guess") : t \in issued}
    \cup {[t EXCEPT !.payload.exp = @ + access_expiry] : t \in issued}
    \cup {Encode([email |-> "ann@x.io", name |-> "Ann", iat |-> 0, exp |-> access_expiry],
                 "guess"),
          [text |-> "abc"], Blank}

\* issued collects every token the service has created and handed out, outbox
\* the mails SES has taken, changes counts the changes of the admin table, ses
\* tells whether SES took mail during the last request (history fields)
AuthInit ==
    [admins |-> AdminUsers, issued |-> {}, changes |-> 0, n |-> 0, req |-> NoneRec,
     resp |-> NoneRec, outbox |-> {}, ses |-> TRUE]

\* the service answers `event` by the handler of its route (lines 263-283)
Answered(event, out) ==
    /\ auth.n < MaxAuthRequests
    /\ auth' = [auth EXCEPT !.n = @ + 1, !.req = event, !.resp = out.response,
                            !.issued = @ \cup out.created,
                            !.outbox = @ \cup Get(out, "mail", {})]
    /\ UNCHANGED <<table, rollups, now, inv, trackerVars, inputVars, cache, job, clients>>

\* a client asks for a magic link, while SES takes mail or rejects it
MagicLink ==
    \E body \in {[fields |-> [email |-> e]] : e \in Emails} \cup {[fields |-> <<>>]},
       ses_ok \in BOOLEAN :
        LET event == [routeKey |-> "POST /auth/magic-link", body |-> body]
            out == handle_magic_link(event, auth.admins, now, ses_ok)
        IN  /\ auth.n < MaxAuthRequests
            /\ auth' = [auth EXCEPT !.n = @ + 1, !.req = event, !.resp = out.response,
                                    !.issued = @ \cup out.created,
                                    !.outbox = @ \cup Get(out, "mail", {}),
                                    !.ses = ses_ok]
            /\ UNCHANGED <<table, rollups, now, inv, trackerVars, inputVars, cache, job,
                           clients>>

\* a client presents a token, or none
Verify ==
    \E body \in {[fields |-> [token |-> t]] : t \in Presentable(auth.issued)}
                 \cup {[fields |-> <<>>], [invalid |-> TRUE]} :
        LET event == [routeKey |-> "POST /auth/verify", body |-> body]
        IN  Answered(event, handle_verify(event, auth.admins, now))

\* an admin is deactivated
Deactivate ==
    /\ auth.changes < MaxAdminChanges
    /\ \E e \in DOMAIN auth.admins :
           auth' = [auth EXCEPT !.changes = @ + 1,
                                !.admins[e] = ("active" :> FALSE) @@ @]
    /\ UNCHANGED <<table, rollups, now, inv, trackerVars, inputVars, cache, job, clients>>

\* an admin is removed from the table
RemoveAdmin ==
    /\ auth.changes < MaxAdminChanges
    /\ \E e \in DOMAIN auth.admins :
           auth' = [auth EXCEPT !.changes = @ + 1,
                                !.admins = [x \in DOMAIN @ \ {e} |-> @[x]]]
    /\ UNCHANGED <<table, rollups, now, inv, trackerVars, inputVars, cache, job, clients>>

\* a quarter of an hour passes
QuarterHour ==
    /\ now < MaxQuarters * magic_link_expiry
    /\ now' = now + magic_link_expiry
    /\ UNCHANGED <<table, rollups, inv, trackerVars, fixedVars>>

AuthSpecInit ==
    /\ table = {}
    /\ rollups = <<>>
    /\ rollups0 = <<>>
    /\ mirror = <<>>
    /\ now = 0
    /\ inv = [i \in Invocations |-> Idle]
    /\ sessions = {}
    /\ req = NoneRec
    /\ resp = NoneRec
    /\ bucket = <<>>
    /\ env = DeployedEnv
    /\ probe = NoneRec
    /\ cache = <<>>
    /\ job = NoneRec
    /\ auth = AuthInit
    /\ clients = NoneRec

AuthNext == MagicLink \/ Verify \/ Deactivate \/ RemoveAdmin \/ QuarterHour

\* the auth service answering requests while admins come and go
SpecAuth == AuthSpecInit /\ [][AuthNext]_vars

(***************************************************************************)
(* cache-builder: several domains, with failures                           *)
(***************************************************************************)

\* the values of DOMAIN_LIST a deployment may carry
DomainLists == {"a.io, b.io", " ,b.io,,a.io ", "c.io", "", " , "}

DomainsInit ==
    /\ table = {}
    /\ rollups = Week
    /\ rollups0 = rollups
    /\ mirror = <<>>
    /\ now = StartOfDay
    /\ inv = [i \in Invocations |-> Idle]
    /\ sessions = {}
    /\ req = NoneRec
    /\ resp = NoneRec
    /\ bucket = <<>>
    /\ env \in {[DeployedEnv EXCEPT !.DOMAIN_LIST = x] : x \in DomainLists}
    /\ probe = NoneRec
    /\ cache = <<>>
    /\ job = NotStarted
    /\ auth = NoneRec
    /\ clients = NoneRec

DomainsNext ==
    \/ StartBuild
    \/ BuildCache
    \/ BuildCacheReadFails
    \/ PutCacheFails
    \/ Hour

\* the cache builder run by its schedule on the domains of DOMAIN_LIST
SpecDomains == DomainsInit /\ [][DomainsNext]_vars

(***************************************************************************)
(* log-parser: one container on objects of more than one batch             *)
(***************************************************************************)

\* the text lines of the largest object
BigLines == 27

\* the objects of the bucket, with an object of BigLines requests, the first of
\* them for a stylesheet, an object of comment lines only, and an object of b.io
\* with requests on either side of midnight
BulkBucket ==
    [k \in DOMAIN Bucket \cup {"a.io/big.gz", "a.io/comments.gz", "b.io/two.gz"} |->
        IF k \in DOMAIN Bucket THEN Bucket[k]
        ELSE IF k = "a.io/comments.gz" THEN "#Version: 1.0\n#Fields: date time\n"
        ELSE IF k = "b.io/two.gz"
        THEN Join(<<LogLine("2024-01-15", "23:59:59", "1.2.3.4", "d2.cloudfront.net", "/",
                            "https://google.com/", "Mozilla", "t1"),
                    LogLine("2024-01-16", "00:00:00", "1.2.3.4", "d2.cloudfront.net", "/",
                            "https://www.b.io/", "Mozilla", "t2"),
                    LogLine("2024-01-16", "00:00:01", "-", "d2.cloudfront.net", "/x",
                            "https://t.co/a", "Mozilla", "t3")>>)
        ELSE Join([n \in 1..BigLines |->
                      LogLine("2024-01-15", IF n % 2 = 0 THEN "12:00:00" ELSE "13:00:00",
                              "1.2.3.4", "d1.cloudfront.net",
                              IF n = 1 THEN "/app.CSS" ELSE "/",
                              IF n = 2 THEN "https://google.com/" ELSE "-",
                              "Mozilla", "r" \o Pad2(n))])]

\* the Records envelopes the platform delivers
BulkEnvelopes ==
    {<<"a.io/comments.gz", "a.io/big.gz">>, <<"a.io/big.gz", "a.io/E1.gz">>,
     <<"/E3.gz", "a.io/E2.gz">>, <<"a.io/comments.gz">>, <<>>,
     <<"a.io/E1.gz", "b.io/two.gz", "a.io/E2.gz">>}

BulkInit ==
    /\ table = {}
    /\ rollups \in InitialRollups
    /\ rollups0 = rollups
    /\ mirror = <<>>
    /\ now = 0
    /\ inv = [i \in Invocations |-> Idle]
    /\ sessions = {}
    /\ req = NoneRec
    /\ resp = NoneRec
    /\ bucket = BulkBucket
    /\ env = DeployedEnv
    /\ probe = NoneRec
    /\ SideInit

BulkNext ==
    \/ \E event \in BulkEnvelopes : Invoke(1, event)
    \/ GetObject(1)
    \/ GetObjectFails(1)
    \/ BatchWrite(1)
    \/ BatchWriteFails(1)
    \/ UpdateItem(1)
    \/ UpdateItemFails(1)
    \/ Tick

\* the log parser on objects of several batches, with failures
SpecBulk == BulkInit /\ [][BulkNext]_vars

(***************************************************************************)
(* What the claims speak of                                                *)
(***************************************************************************)

\* the events the line loop keeps from the object of each delivered line, under
\* each of the exclusion settings
ProbeEvents ==
    [p \in ProbeLines |->
        [e \in ProbeEnvs |->
            KeptItems(Split(ProbeContent(p), "\n"), _extract_domain_from_s3_key(p.key), e)]]

\* the events kept from the delivered object under the settings e
KeptUnder(e) == ProbeEvents[probe][e]

\* the events kept from the delivered object under the deployed settings
KeptEvents == KeptUnder(env)

\* the kept events of each object of Bucket under DeployedEnv
BucketEvents ==
    [k \in DOMAIN Bucket |->
        IF Truthy(_extract_domain_from_s3_key(k))
        THEN KeptItems(Split(Bucket[k], "\n"), _extract_domain_from_s3_key(k), DeployedEnv)
        ELSE <<>>]

\* the kept events of the object an invocation processed as its n-th record
EventsOf(x) == BucketEvents[inv[x[1]].Records[x[2]]]

\* the daily stats row of the (domain, date) of an event
StatsRowOf(e) == <<"ROLLUP#" \o e.domain, "STATS#" \o e.date>>

\* the rollup rows an event counts in: daily stats, page, hour and, with an
\* external referrer, referrer
RowsOf(e) ==
    {StatsRowOf(e),
     <<"ROLLUP#" \o e.domain, "PAGE#" \o e.date \o "#" \o e.path>>,
     <<"ROLLUP#" \o e.domain, "HOUR#" \o e.date \o "#" \o HourOf(e)>>}
    \cup (IF Truthy(e.referrer_domain)
          THEN {<<"ROLLUP#" \o e.domain, "REF#" \o e.date \o "#" \o e.referrer_domain>>}
          ELSE {})

\* the number of events of the sequence es that count in rollup row K
Delta(es, K) == Cardinality({j \in 1..Len(es) : K \in RowsOf(es[j])})

\* the client IPs of the events of es whose daily stats row is K
IpsOf(es, K) ==
    {es[j].client_ip :
        j \in {n \in 1..Len(es) : K = StatsRowOf(es[n]) /\ Truthy(es[n].client_ip)}}

\* the counter of a rollup row: requests on a STATS row, count on the others
Counter(rl, K) ==
    IF K \notin DOMAIN rl THEN 0
    ELSE IF "requests" \in DOMAIN rl[K] THEN rl[K].requests
    ELSE IF "count" \in DOMAIN rl[K] THEN rl[K].count
    ELSE 0

\* the unique_ips set of a rollup row
UniqueIps(rl, K) ==
    IF K \in DOMAIN rl /\ "unique_ips" \in DOMAIN rl[K] THEN rl[K].unique_ips ELSE {}

\* the records of its envelope an invocation has processed to the end
ProcessedRecords(l) ==
    IF l.pc = "returned" THEN 1..Len(l.Records)
    ELSE IF l.pc = "idle" THEN {}
    ELSE 1..(l.r - 1)

\* every invocation is over (or was never started) and no update failure was logged
AllFinished ==
    \A i \in Invocations :
        inv[i].pc \in {"idle", "returned", "raised"} /\ inv[i].warnings = 0

\* the objects processed, as <<invocation, record>> pairs
Processed == UNION {{<<i, n>> : n \in ProcessedRecords(inv[i])} : i \in Invocations}

\* no object was processed by two invocations, or twice by one
DifferentObjects ==
    \A x, y \in Processed :
        x # y => inv[x[1]].Records[x[2]] # inv[y[1]].Records[y[2]]

RECURSIVE SumDelta(_, _)
\* the events of the processed objects xs that count in rollup row K
SumDelta(xs, K) ==
    IF xs = {} THEN 0
    ELSE LET x == CHOOSE y \in xs : TRUE
         IN  Delta(EventsOf(x), K) + SumDelta(xs \ {x}, K)

\* the rollup rows some event of es counts in
RowsOfAll(es) == UNION {RowsOf(es[j]) : j \in 1..Len(es)}

\* the rollup rows some processed object counts in
TouchedRows == UNION {RowsOfAll(EventsOf(x)) : x \in Processed}

\* the client IPs the processed objects add to rollup row K
SumIps(K) == UNION {IpsOf(EventsOf(x), K) : x \in Processed}

(***************************************************************************)
(* C1  Concurrent invocations on different objects converge                *)
(***************************************************************************)

\* C1: when invocations that processed different objects have all finished and
\* no update failed, every rollup counter is its initial value plus the number
\* of kept events of the processed objects that count in its row, and
\* unique_ips is the initial set united with their client IPs, whatever the
\* interleaving of the update_item calls was.
C1_ConcurrentRollupsConverge ==
    (AllFinished /\ DifferentObjects) =>
        /\ DOMAIN rollups = DOMAIN rollups0 \cup TouchedRows
        /\ \A K \in DOMAIN rollups :
              /\ Counter(rollups, K) = Counter(rollups0, K) + SumDelta(Processed, K)
              /\ UniqueIps(rollups, K) = UniqueIps(rollups0, K) \cup SumIps(K)

\* C1 witness: two invocations processed the two objects of a.io for 2024-01-15,
\* their update_item calls interleaved, and the shared daily row holds 5 + 1 + 2
\* requests and the three client IPs on top of the initial ones
C1_Witness ==
    /\ AllFinished
    /\ inv[1].pc = "returned" /\ inv[1].Records = <<"a.io/E1.gz">>
    /\ inv[2].pc = "returned" /\ inv[2].Records = <<"a.io/E2.gz">>
    /\ inv[1].overlap /\ inv[2].overlap
    /\ Counter(rollups0, <<"ROLLUP#a.io", "STATS#2024-01-15">>) = 5
    /\ Counter(rollups, <<"ROLLUP#a.io", "STATS#2024-01-15">>) = 8
    /\ Counter(rollups, <<"ROLLUP#a.io", "PAGE#2024-01-15#/">>) = 2
    /\ UniqueIps(rollups, <<"ROLLUP#a.io", "STATS#2024-01-15">>)
           = {"1.2.3.4", "7.7.7.7", "9.9.9.9"}

(***************************************************************************)
(* C2  The rollup writer commutes                                          *)
(***************************************************************************)

\* C2: for two disjoint batches A and B of kept events of one (domain, date),
\* the rollup writer run on A and then on B leaves the same rows, the same
\* counters and the same unique_ips sets as run on B and then on A.
C2_RollupWriterCommutes ==
    (probe.main = <<"A", "B">> /\ probe.mirror = <<"B", "A">>) =>
        /\ DOMAIN rollups = DOMAIN mirror
        /\ \A K \in DOMAIN rollups :
              /\ Counter(rollups, K) = Counter(mirror, K)
              /\ UniqueIps(rollups, K) = UniqueIps(mirror, K)

\* C2 witness: both orders have run, A counting twice and B once in the page row
\* of "/", on top of an initial daily row, with different client IPs in A and B
C2_Witness ==
    /\ probe.main = <<"A", "B">> /\ probe.mirror = <<"B", "A">>
    /\ Len(probe.A) = 2 /\ Len(probe.B) = 1
    /\ Counter(rollups0, <<"ROLLUP#a.io", "STATS#2024-01-15">>) = 5
    /\ Counter(mirror, <<"ROLLUP#a.io", "STATS#2024-01-15">>) = 8
    /\ Counter(rollups, <<"ROLLUP#a.io", "PAGE#2024-01-15#/">>) = 2
    /\ Counter(rollups, <<"ROLLUP#a.io", "PAGE#2024-01-15#/x">>) = 1
    /\ UniqueIps(mirror, <<"ROLLUP#a.io", "STATS#2024-01-15">>)
          = {"1.2.3.4", "7.7.7.7", "9.9.9.9"}

(***************************************************************************)
(* C3  Event writes are idempotent                                         *)
(***************************************************************************)

\* an item without its ttl
WithoutTtl(item) == [a \in DOMAIN item \ {"ttl"} |-> item[a]]

\* the puts of the delivered line so far, given the events kept from the object:
\* its copies, once per batch write done
PutsOf(kept) ==
    IF kept = <<>> THEN 0
    ELSE probe.copies
         * (IF inv[1].pc \in {"update_item", "returned"}
            THEN inv[1].deliveries ELSE inv[1].deliveries - 1)

ProbePuts == PutsOf(KeptEvents)

\* the table holds the one row of the first of the kept events
OneRowOf(kept) ==
    PutsOf(kept) >= 1 =>
        /\ Cardinality(table) = 1
        /\ \A row \in table :
              /\ row.PK = "a.io#" \o probe.date
              /\ row.SK = probe.date \o "T" \o probe.time \o "Z#" \o probe.rid
              /\ WithoutTtl(row) = WithoutTtl(db_item(kept[1], 0))

\* C3: once the same parsed line has been put N >= 1 times (as copies within the
\* object, and again at each redelivery), the table holds exactly one row for it,
\* with PK = domain#date and SK = timestamp#request_id, and the row without its
\* ttl is the one the line and the key-derived domain determine, whatever N and
\* the times of the writes.
C3_OneRowPerLine == OneRowOf(KeptEvents)

\* C3 witness: the line occurs twice in the object and the object was delivered
\* twice, at different times: four puts, one row, stamped at the later time
C3_Witness ==
    /\ ProbePuts = 4
    /\ inv[1].pc = "returned"
    /\ Cardinality(table) = 1
    /\ \A row \in table : row.ttl = TtlAt(1)

(***************************************************************************)
(* C4  Redelivery double-counts the rollups and not the events             *)
(***************************************************************************)

\* C4: after the same object has been processed twice, the event rows are those
\* one delivery leaves, every rollup counter the object touches is its initial
\* value plus twice the number of kept events that count in it, and unique_ips
\* is what one delivery leaves.
C4_RedeliveryDoubleCounts ==
    (inv[1].pc = "returned" /\ inv[1].deliveries = 2) =>
        /\ \E c \in 0..MaxClock :
              table = _batch_write_to_dynamodb({}, KeptEvents, c)
        /\ DOMAIN rollups = DOMAIN rollups0 \cup RowsOfAll(KeptEvents)
        /\ \A K \in RowsOfAll(KeptEvents) :
              /\ Counter(rollups, K)
                    = Counter(rollups0, K) + 2 * Delta(KeptEvents, K)
              /\ UniqueIps(rollups, K)
                    = UniqueIps(_update_rollups(rollups0, KeptEvents, 0), K)

\* C4 witness: an object of two kept lines was delivered twice: the daily row went
\* from 5 to 9 requests and the table holds the one row of the line
C4_Witness ==
    /\ inv[1].pc = "returned" /\ inv[1].deliveries = 2
    /\ probe.copies = 2
    /\ Cardinality(table) = 1
    /\ Counter(rollups0, <<"ROLLUP#a.io", "STATS#2024-01-15">>) = 5
    /\ Counter(rollups, <<"ROLLUP#a.io", "STATS#2024-01-15">>) = 9
    /\ Counter(rollups, <<"ROLLUP#a.io", "REF#2024-01-15#google.com">>) = 4

(***************************************************************************)
(* C5  Self-referral policy                                                *)
(***************************************************************************)

\* lowercase and strip one leading "www."
Normalize(x) ==
    IF Len(x) >= 4 /\ Lower(SubSeq(x, 1, 4)) = "www." THEN Lower(SubSeq(x, 5, Len(x)))
    ELSE Lower(x)

\* the referer URL of the delivered line: "" when the slot holds a dash
ProbeRefererUrl == IF probe.referer = "-" THEN "" ELSE unquote(probe.referer)

\* the delivered line was parsed and kept, and its referer is a URL urlparse accepts
ProbeParsed ==
    /\ inv[1].pc = "batch_write"
    /\ ~UrlparseRaises(ProbeRefererUrl)

\* C5 as claimed: referrer_domain is absent iff the netloc r of the referer is
\* empty or normalize(r) = normalize(h), and is normalize(r) otherwise.
C5_AbsentIffEmptyOrSelf ==
    ProbeParsed =>
        \A j \in 1..Len(inv[1].items) :
            LET r == Netloc(ProbeRefererUrl)
                absent == r = "" \/ Normalize(r) = Normalize(probe.host)
            IN  inv[1].items[j].referrer_domain
                    = (IF absent THEN NoneVal ELSE Normalize(r))

\* C5 as amended: referrer_domain is absent iff normalize(r) is empty (no referer,
\* no netloc, or the netloc "www.") or normalize(r) = normalize(h), and is
\* normalize(r) otherwise.
C5_AbsentIffNormalizedEmptyOrSelf ==
    ProbeParsed =>
        \A j \in 1..Len(inv[1].items) :
            LET r == Netloc(ProbeRefererUrl)
                absent == Normalize(r) = "" \/ Normalize(r) = Normalize(probe.host)
            IN  inv[1].items[j].referrer_domain
                    = (IF absent THEN NoneVal ELSE Normalize(r))

\* C5 witness: a line whose referer has the netloc "www." was parsed and carries
\* no referrer_domain
C5_Witness ==
    /\ ProbeParsed
    /\ Netloc(ProbeRefererUrl) = "www."
    /\ inv[1].items[1].referrer_domain = NoneVal

(***************************************************************************)
(* C6  The date of the partition key                                       *)
(***************************************************************************)

\* C6: every event row satisfies PK.split("#")[1] == timestamp[0:10].
C6_PkDateIsTimestampPrefix ==
    \A row \in table : Split(row.PK, "#")[2] = Slice(row.timestamp, 0, 10)

(***************************************************************************)
(* C7  The path filter is monotonic                                        *)
(***************************************************************************)

\* the settings e2 exclude every suffix and every prefix the settings e1 exclude
Extends(e2, e1) ==
    /\ EXCLUDED_EXTENSIONS(e1) \subseteq EXCLUDED_EXTENSIONS(e2)
    /\ Range(EXCLUDED_PATHS(e1)) \subseteq Range(EXCLUDED_PATHS(e2))

\* C7: under settings that extend the deployed ones by suffixes or prefixes, the
\* events kept from the delivered object are among those the deployed settings
\* keep, and they are no more than the events the invocation wrote.
C7_FilterMonotonic ==
    \A e2 \in ProbeEnvs :
        Extends(e2, env) =>
            /\ inv[1].pc = "batch_write" =>
                  /\ Range(KeptUnder(e2)) \subseteq Range(inv[1].items)
                  /\ Len(KeptUnder(e2)) <= Len(inv[1].items)
            /\ inv[1].pc = "returned" => Len(KeptUnder(e2)) <= inv[1].total_written

\* C7 witness: with nothing excluded the line for /app.CSS was written, and
\* settings extending the deployed ones by the suffix .css keep nothing
C7_Witness ==
    /\ inv[1].pc = "returned"
    /\ inv[1].total_written = 1
    /\ probe.path = "/app.CSS"
    /\ \E e2 \in ProbeEnvs :
          /\ Extends(e2, env)
          /\ EXCLUDED_EXTENSIONS(e2) = {".css"}
          /\ KeptUnder(e2) = <<>>

(***************************************************************************)
(* C8  POST /t/batch                                                       *)
(***************************************************************************)

\* the seven kinds of tracking event
SevenKinds ==
    {"session_start", "pageview", "navigation", "scroll", "time_on_page", "session_end",
     "not_found"}

\* the event has the four required fields, an allowed domain and a known kind
MeetsValidation(ev) ==
    /\ ev.type = "object"
    /\ {"session_id", "event_type", "domain", "path"} \subseteq DOMAIN ev.fields
    /\ ev.fields.domain \in Range(Split(env.ALLOWED_DOMAINS, ","))
    /\ ev.fields.event_type \in SevenKinds

\* the request is a POST of a JSON object to the path
PostsObject(event, path) ==
    /\ event.method = "POST"
    /\ event.rawPath = path
    /\ "body" \in DOMAIN event
    /\ event.body.kind = "json"
    /\ event.body.value.type = "object"

\* the rows after putting the events of the list at the positions `valid`, each
\* built at the current time with its own event_id or a generated one
ValidPut(events, valid) ==
    \E ids \in [{i \in valid : ~Truthy(Get(events[i].fields, "event_id", NoneVal))}
                   -> Uuids] :
        sessions' = PutInOrder(sessions,
                               [i \in valid |->
                                   _build_dynamodb_item(
                                       events[i].fields, now,
                                       IF i \in DOMAIN ids THEN ids[i] ELSE NoneVal)])

\* the answer to a batch of N events of which those at `valid` pass validation
BatchAnswer(events, valid) ==
    IF Len(events) = 0 \/ Len(events) > 100
    THEN /\ resp'.statusCode = 400
         /\ sessions' = sessions
    ELSE /\ resp'.statusCode = 200
         /\ resp'.body = "{\"status\": \"ok\", \"written\": "
                         \o ToString(Cardinality(valid)) \o ", \"errors\": "
                         \o ToString(Len(events) - Cardinality(valid)) \o "}"
         /\ ValidPut(events, valid)

\* C8: POST /t/batch with an events list of N entries answers 400 and writes
\* nothing if N = 0 or N > 100; otherwise, with K entries failing validation, it
\* answers 200 with written = N-K and errors = K, and exactly the N-K valid events
\* are put to the session store.
C8_BatchWritesValidEvents ==
    [][(/\ Handled' = Handled + 1
        /\ PostsObject(req'.event, "/t/batch")
        /\ "events" \in DOMAIN req'.event.body.value.fields)
       => BatchAnswer(req'.event.body.value.fields.events,
                      {i \in 1..Len(req'.event.body.value.fields.events) :
                          MeetsValidation(req'.event.body.value.fields.events[i])})]_vars

\* C8 witness: a batch of a valid event, one without path and another valid one was
\* answered 200 with written = 2 and errors = 1, and the store holds the two rows
C8_Witness ==
    /\ req # NoneRec
    /\ PostsObject(req.event, "/t/batch")
    /\ req.event.body.value.fields = [events |-> <<Obj(Page), Obj(MissingPath), Obj(Start)>>]
    /\ resp.statusCode = 200
    /\ resp.body = "{\"status\": \"ok\", \"written\": 2, \"errors\": 1}"
    /\ {row.event_type : row \in sessions} = {"pageview", "session_start"}
    /\ Cardinality(sessions) = 2

(***************************************************************************)
(* C9  POST /t                                                             *)
(***************************************************************************)

\* the answer to one event object
SingleAnswer(ev) ==
    IF MeetsValidation(ev)
    THEN /\ resp'.statusCode = 200
         /\ resp'.body = "{\"status\": \"ok\"}"
         /\ \E uuid \in Uuids :
               /\ _build_dynamodb_item(ev.fields, now, uuid) \in sessions'
               /\ sessions' = put_item(sessions, _build_dynamodb_item(ev.fields, now, uuid))
    ELSE /\ resp'.statusCode = 400
         /\ _validate_event(ev.fields, env) # NoneVal
         /\ resp'.body = "{\"error\": \"" \o _validate_event(ev.fields, env) \o "\"}"
         /\ sessions' = sessions

\* C9: POST /t with one event object answers 200 {status:'ok'} and writes one
\* session row iff the event passes validation; on a validation failure it answers
\* 400 with the validation error message and leaves the session store unchanged.
C9_SingleEventAnswer ==
    [][(Handled' = Handled + 1 /\ PostsObject(req'.event, "/t"))
       => SingleAnswer(req'.event.body.value)]_vars

\* C9 witness: after a valid event was written, an event of a domain outside the
\* allow-list was answered 400 with the message, and the store holds the one row
C9_Witness ==
    /\ req # NoneRec
    /\ req.n = 2
    /\ PostsObject(req.event, "/t")
    /\ req.event.body.value = Obj(Evil)
    /\ resp.statusCode = 400
    /\ resp.body = "{\"error\": \"Domain not allowed: evil.example\"}"
    /\ Cardinality(sessions) = 1
    /\ \A row \in sessions : row.PK = "SESSION#s2" /\ row.SK \in {"EVENT#1970-01-01T00:00:01Z#" \o u : u \in Uuids}

(***************************************************************************)
(* C10  Every session row is a validated event                             *)
(***************************************************************************)

KeyAt(l) == l.Records[l.r]

\* C11: an invocation whose object fetch, decode or event batch put raised has
\* failed for good: it returns no result and processes no later record of its
\* envelope; the step that raises writes nothing, and the fetch of a key that is
\* not in the bucket always raises.
C11_FailureFailsInvocation ==
    [][\A i \in Invocations :
          /\ inv[i].pc = "raised" => inv'[i] = inv[i]
          /\ (inv[i].pc # "raised" /\ inv'[i].pc = "raised") =>
                /\ inv[i].pc \in {"get_object", "batch_write"}
                /\ inv'[i] = [inv[i] EXCEPT !.pc = "raised"]
                /\ table' = table
                /\ rollups' = rollups
          /\ (/\ inv[i].pc = "get_object"
              /\ KeyAt(inv[i]) \notin DOMAIN bucket
              /\ inv'[i] # inv[i]) => inv'[i].pc = "raised"]_vars

\* C11 witness: the fetch of the first of two records raised: the invocation has
\* failed at that record, the second record was not processed and nothing is written
\* for it, while another invocation failed on a key that is not in the bucket
C11_Witness ==
    /\ inv[1].Records = <<"/E3.gz", "a.io/E1.gz">>
    /\ inv[1].pc = "raised"
    /\ inv[1].r = 1
    /\ inv[1].total_written = 0
    /\ inv[2].Records = <<"a.io/missing.gz">>
    /\ inv[2].pc = "raised"
    /\ table = {}

(***************************************************************************)
(* C12  A line that cannot be parsed is skipped                            *)
(***************************************************************************)

\* what the line loop keeps of each line taken as an object of its own, under each
\* key and each of the settings
LineEvents ==
    [line \in LineCatalogue |->
        [k \in ObjectKeys |->
            [e \in ObjectEnvs |-> KeptItems(<<line>>, _extract_domain_from_s3_key(k), e)]]]

\* what the line loop keeps of one line of the delivered object, taken alone
KeptAlone(line) == LineEvents[line][probe.key][env]

\* the positions of the lines of the delivered object that are kept when taken alone
KeptPositions == {j \in 1..Len(probe.lines) : KeptAlone(probe.lines[j]) # <<>>}

\* the items are the kept lines, each as it is kept when taken alone, in file order
InFileOrder(items, kept) ==
    /\ Len(items) = Cardinality(kept)
    /\ \A k \in 1..Len(items) : <<items[k]>> = KeptAlone(probe.lines[Kth(kept, k)])

\* C12: whatever the lines of the object, the invocation does not fail; once the
\* object is read, the events kept from it are the kept events of its lines, each
\* taken independently, in file order; an object none of whose lines is kept is
\* passed over and the invocation returns.
C12_BadLinesAreSkipped ==
    /\ inv[1].pc # "raised"
    /\ inv[1].pc \in {"batch_write", "update_item"} =>
          InFileOrder(inv[1].items, KeptPositions)
    /\ inv[1].pc = "returned" => inv[1].total_processed = Cardinality(KeptPositions)

\* C12 witness: of the three lines of the object the truncated second one was
\* skipped and the requests before and after it were kept, in that order
C12_Witness ==
    /\ Len(probe.lines) = 3
    /\ probe.lines[2] = "truncated\tline"
    /\ inv[1].pc = "batch_write"
    /\ Len(inv[1].items) = 2
    /\ inv[1].items[1].request_id = "r1"
    /\ inv[1].items[2].path = "/p/q"

(***************************************************************************)
(* C13  A failed rollup update is skipped                                  *)
(***************************************************************************)

\* every invocation is over (or was never started)
AllOver == \A i \in Invocations : inv[i].pc \in {"idle", "returned", "raised"}

\* the client IPs the processed objects other than x add to rollup row K
OtherIps(x, K) == UNION {IpsOf(EventsOf(y), K) : y \in Processed \ {x}}

\* every rollup row holds what the processed objects add to it, but row K0, which
\* lacks what the object x adds to it
AllButOne(x, K0) ==
    \A K \in DOMAIN rollups0 \cup TouchedRows :
        IF K = K0
        THEN /\ Counter(rollups, K)
                   = Counter(rollups0, K) + SumDelta(Processed, K) - Delta(EventsOf(x), K)
             /\ UniqueIps(rollups, K) = UniqueIps(rollups0, K) \cup OtherIps(x, K)
        ELSE /\ Counter(rollups, K) = Counter(rollups0, K) + SumDelta(Processed, K)
             /\ UniqueIps(rollups, K) = UniqueIps(rollups0, K) \cup SumIps(K)

\* invocation w logged one failed update and completed: one row of one of its
\* objects lacks that object's delta, and every other row has all of its deltas
OneRowDegraded(w) ==
    /\ inv[w].pc = "returned"
    /\ \E n \in ProcessedRecords(inv[w]) :
          \E K0 \in RowsOfAll(EventsOf(<<w, n>>)) : AllButOne(<<w, n>>, K0)

\* C13: the step on which an update_item call fails changes no rollup row and does
\* not fail the invocation; and whenever the invocations are over, an invocation that
\* logged one failed update has returned, the row of the failed call lacks exactly
\* that object's delta, and every other rollup row holds exactly its deltas.
C13_FailedUpdateIsSkipped ==
    [][/\ \A i \in Invocations :
              inv'[i].warnings # inv[i].warnings =>
                  /\ rollups' = rollups
                  /\ inv'[i].pc \in {"update_item", "get_object", "returned"}
                  /\ Len(inv[i].pending) > 1 => inv'[i].pending = Tail(inv[i].pending)
       /\ \A w \in Invocations :
              (AllOver' /\ inv'[w].warnings = 1) => OneRowDegraded(w)']_vars

\* C13 witness: the daily stats update of the object E2 failed: its two events are
\* missing from the daily row, the page rows have them, and the invocation returned
C13_Witness ==
    /\ AllOver
    /\ inv[1].Records = <<"a.io/E2.gz">>
    /\ inv[1].warnings = 1
    /\ inv[1].pc = "returned"
    /\ inv[2].pc = "idle"
    /\ Counter(rollups0, <<"ROLLUP#a.io", "STATS#2024-01-15">>) = 5
    /\ Counter(rollups, <<"ROLLUP#a.io", "STATS#2024-01-15">>) = 5
    /\ Counter(rollups, <<"ROLLUP#a.io", "PAGE#2024-01-15#/">>) = 1
    /\ Counter(rollups, <<"ROLLUP#a.io", "PAGE#2024-01-15#/x">>) = 1
    /\ Counter(rollups, <<"ROLLUP#a.io", "HOUR#2024-01-15#13">>) = 1

(***************************************************************************)
(* C14  Events and rollups are eventually consistent                       *)
(***************************************************************************)

\* the event a row of the event table was built from, as the rollup writer sees it
EventOfRow(row) ==
    [domain |-> row.domain, date |-> From(row.PK, Len(row.domain) + 1),
     path |-> row.path, timestamp |-> row.timestamp,
     referrer_domain |-> Get(row, "referrer_domain", NoneVal)]

\* the number of stored events that count in rollup row K
Stored(K) == Cardinality({row \in table : K \in RowsOf(EventOfRow(row))})

\* the rollup rows include the contribution of every stored event
Consistent ==
    \A row \in table :
        /\ \A K \in RowsOf(EventOfRow(row)) :
              Counter(rollups, K) >= Counter(rollups0, K) + Stored(K)
        /\ "client_ip" \in DOMAIN row =>
              row.client_ip \in UniqueIps(rollups, StatsRowOf(EventOfRow(row)))

\* an update_item call of the invocation has failed and was skipped
Warned == inv[1].warnings > 0

ObjectIps(K) ==
    UNION {IpsOf(KeptAlone(probe.lines[j]), K) : j \in 1..Len(probe.lines)}

\* C15: no step removes a rollup row, decreases its counter or removes an element
\* of its unique_ips; a step that changes the rollups changes one row and adds at
\* least 1 to its counter; and the unique_ips of a row hold, besides what the row
\* held at the start, only client IPs of kept events of its (domain, date).
C15_RollupsOnlyGrow ==
    [][/\ \A K \in DOMAIN rollups :
              /\ K \in DOMAIN rollups'
              /\ Counter(rollups', K) >= Counter(rollups, K)
              /\ UniqueIps(rollups, K) \subseteq UniqueIps(rollups', K)
       /\ rollups' # rollups =>
              \E K \in DOMAIN rollups' :
                  /\ Counter(rollups', K) >= Counter(rollups, K) + 1
                  /\ \A J \in DOMAIN rollups' \ {K} :
                         J \in DOMAIN rollups /\ rollups'[J] = rollups[J]
       /\ \A K \in DOMAIN rollups' :
              UniqueIps(rollups', K) \subseteq UniqueIps(rollups0, K) \cup ObjectIps(K)
      ]_vars

\* C15 witness: an object with a request of each of two days was processed over a
\* daily row that existed; the row of the first day gained a request and a client
\* IP and kept what it held, the row of the second day holds its one client IP
C15_Witness ==
    /\ probe.key = "a.io/2024/01/15/E1.gz"
    /\ Len(probe.lines) = 2
    /\ inv[1].pc = "returned"
    /\ UniqueIps(rollups0, <<"ROLLUP#a.io", "STATS#2024-01-15">>) = {"1.2.3.4", "7.7.7.7"}
    /\ Counter(rollups, <<"ROLLUP#a.io", "STATS#2024-01-15">>) = 6
    /\ UniqueIps(rollups, <<"ROLLUP#a.io", "STATS#2024-01-15">>)
           = {"1.2.3.4", "5.6.7.8", "7.7.7.7"}
    /\ Counter(rollups, <<"ROLLUP#a.io", "STATS#2024-01-16">>) = 1
    /\ UniqueIps(rollups, <<"ROLLUP#a.io", "STATS#2024-01-16">>) = {"1.2.3.4"}

(***************************************************************************)
(* C16  Rows carry the domain of the object key                            *)
(***************************************************************************)

\* the first slash-delimited segment of the key of the delivered object
KeyDomain == SubSeq(probe.key, 1, Find(probe.key, "/") - 1)

\* C16: every event row written for the delivered object has the first segment of
\* the object key as its domain attribute and at the head of PK, GSI1PK and GSI2PK,
\* and every rollup row written or updated for it has PK = ROLLUP#<that segment>,
\* whatever the host field of its lines.
C16_RowsCarryKeyDomain ==
    /\ \A row \in table :
           /\ row.domain = KeyDomain
           /\ StartsWith(row.PK, KeyDomain \o "#20")
           /\ row.GSI1PK = KeyDomain \o "#" \o row.path
           /\ "GSI2PK" \in DOMAIN row =>
                  row.GSI2PK = KeyDomain \o "#" \o row.referrer_domain
    /\ \A K \in DOMAIN rollups :
           (K \notin DOMAIN rollups0 \/ rollups[K] # rollups0[K]) =>
               K[1] = "ROLLUP#" \o KeyDomain

\* C16 witness: the object of b.io held a request logged under the host www.a.io;
\* its event row and its rollup rows are written
C16_Witness ==
    /\ probe.key = "b.io/E2.gz"
    /\ inv[1].pc = "returned"
    /\ \E row \in table : row.path = "/p/q" /\ row.PK = "b.io#2024-01-15"
    /\ Counter(rollups, <<"ROLLUP#b.io", "PAGE#2024-01-15#/p/q">>) = 1
    /\ Counter(rollups, <<"ROLLUP#b.io", "STATS#2024-01-15">>) = 1

(***************************************************************************)
(* C17  A record whose key has no domain segment is skipped                *)
(***************************************************************************)

\* the key of the record invocation l is at has an empty first segment
NoDomainSegment(l) ==
    /\ l.pc = "get_object"
    /\ l.Records[l.r] \in DOMAIN bucket
    /\ StartsWith(l.Records[l.r], "/")

\* C17: when the object of a record whose key has no domain segment is fetched,
\* the step writes no event row and no rollup row, the invocation does not fail,
\* and it goes on with the next record of the envelope (or returns after the
\* last); no row of an empty domain is ever stored.
C17_NoDomainRecordIsSkipped ==
    [][\A i \in Invocations :
           (NoDomainSegment(inv[i]) /\ GetObject(i)) =>
               /\ table' = table
               /\ rollups' = rollups
               /\ inv'[i].pc # "raised"
               /\ inv'[i].total_processed = inv[i].total_processed
               /\ IF inv[i].r < Len(inv[i].Records)
                  THEN inv'[i].pc = "get_object" /\ inv'[i].r = inv[i].r + 1
                  ELSE inv'[i].pc = "returned"
               /\ \A row \in table' : row.domain # ""
               /\ \A K \in DOMAIN rollups' : K[1] # "ROLLUP#"
      ]_vars

\* C17 witness: the first record of the envelope had a key without a domain
\* segment; the invocation returned, having written the one kept event of the
\* second record and nothing for the first
C17_Witness ==
    /\ inv[1].Records = <<"/E3.gz", "a.io/E1.gz">>
    /\ inv[1].pc = "returned"
    /\ inv[1].deliveries = 1
    /\ inv[1].total_processed = 1
    /\ inv[1].total_written = 1
    /\ inv[2].pc = "idle"
    /\ \A row \in table : row.domain = "a.io"
    /\ Cardinality(table) = 1

(***************************************************************************)
(* C18  What the parser skips and what it reads from where                 *)
(***************************************************************************)

\* the object has one line, nothing is excluded by path, and the line loop is over
OneLineRead ==
    /\ Len(probe.lines) = 1
    /\ env.EXCLUDED_EXTENSIONS = ""
    /\ env.EXCLUDED_PATHS = ""
    /\ inv[1].pc \in {"batch_write", "update_item", "returned"}

\* the event holds the fields f at positions 0, 1, 4, 6, 7, 8, 9, 10 and 14, and
\* the timestamp date + "T" + time + "Z"
ReadFrom(item, f) ==
    /\ item.timestamp = f[1] \o "T" \o f[2] \o "Z"
    /\ item.date = f[1]
    /\ item.client_ip = f[5]
    /\ item.path = unquote(f[8])
    /\ item.status = f[9]
    /\ item.referrer = (IF f[10] = "-" THEN NoneVal ELSE unquote(f[10]))
    /\ item.user_agent = (IF f[11] = "-" THEN NoneVal ELSE unquote(f[11]))
    /\ item.request_id = f[15]
    /\ item.referrer_domain = ReferrerDomain(item.referrer, f[7])

\* the line of the object is skipped iff it is a comment or f has fewer than 20
\* fields, and is otherwise read from f
SkipsOrReads(f) ==
    IF StartsWith(probe.lines[1], "#") \/ Len(f) < 20
    THEN inv[1].total_processed = 0
    ELSE /\ inv[1].total_processed = 1
         /\ inv[1].pc \in {"batch_write", "update_item"} =>
                Len(inv[1].items) = 1 /\ ReadFrom(inv[1].items[1], f)

\* C18 as claimed: the parser skips a line iff it is a '#'-comment or has fewer
\* than 20 tab-separated fields, and reads every other line from its field
\* positions 0, 1, 4, 6, 7, 8, 9, 10 and 14.
C18_SkipIffCommentOrShort ==
    OneLineRead => SkipsOrReads(Split(probe.lines[1], "\t"))

\* C18 as amended: the parser skips a line iff it is a '#'-comment or, once
\* stripped of the whitespace at its ends, has fewer than 20 tab-separated
\* fields, and reads every other line from the field positions 0, 1, 4, 6, 7, 8,
\* 9, 10 and 14 of the stripped line.
C18_SkipIffCommentOrShortStripped ==
    OneLineRead => SkipsOrReads(Split(Strip(probe.lines[1]), "\t"))

\* C18 witness: a line that begins with a tab was read; its date is the first
\* field after the tab
C18_Witness ==
    /\ OneLineRead
    /\ probe.lines[1] = "\t" \o LineR1
    /\ inv[1].pc = "batch_write"
    /\ inv[1].items[1].date = "2024-01-15"
    /\ inv[1].items[1].status = "200"
    /\ inv[1].items[1].request_id = "r1"

(***************************************************************************)
(* C19  A dash in the referer, user-agent or request_id slot                *)
(***************************************************************************)

\* the attribute of the row is absent, or is not the literal dash
NoDash(row, attr) == attr \in DOMAIN row => row[attr] # "-"

\* C19: no parsed event carries the literal '-' as its referrer, user agent or
\* request id, and no event row has an attribute or a sort key built from it.
C19_DashIsAbsent ==
    /\ \A k \in 1..Len(inv[1].items) :
           /\ inv[1].items[k].referrer # "-"
           /\ inv[1].items[k].user_agent # "-"
           /\ inv[1].items[k].request_id # "-"
    /\ \A row \in table :
           /\ NoDash(row, "referrer")
           /\ NoDash(row, "user_agent")
           /\ NoDash(row, "request_id")
           /\ ~EndsWith(row.SK, "#-")

(***************************************************************************)
(* C20  (PK, SK) is unique per request                                     *)
(***************************************************************************)

\* the consumed fields of a kept line
Request(item) ==
    <<item.date, item.timestamp, item.client_ip, item.path, item.status, item.referrer,
      item.user_agent, item.request_id>>

\* the date, the time and the request id of a kept line
Triple(item) == <<item.date, item.timestamp, item.request_id>>

\* the key of the event row the writer builds for a kept line
RowKey(item) == <<db_item(item, now).PK, db_item(item, now).SK>>

\* the kept lines of the delivered object, once the line loop is over
Items == inv[1].items

\* C20 as claimed: two kept lines of an object that differ in some consumed field
\* never get the same event row key, and once the object is written the table
\* holds as many rows as the object has distinct requests.
C20_KeyUniquePerRequest ==
    /\ \A j, k \in 1..Len(Items) :
           Request(Items[j]) # Request(Items[k]) => RowKey(Items[j]) # RowKey(Items[k])
    /\ inv[1].pc = "update_item" =>
           Cardinality(table) = Cardinality({Request(Items[k]) : k \in 1..Len(Items)})

\* C20 as amended: two kept lines of an object get the same event row key iff they
\* agree in date, time and request id, and once the object is written the table
\* holds as many rows as the kept lines have distinct (date, time, request id).
C20_KeyUniquePerDateTimeAndId ==
    /\ \A j, k \in 1..Len(Items) :
           Triple(Items[j]) # Triple(Items[k]) <=> RowKey(Items[j]) # RowKey(Items[k])
    /\ inv[1].pc = "update_item" =>
           Cardinality(table) = Cardinality({Triple(Items[k]) : k \in 1..Len(Items)})

\* C20 witness: two lines with the date, time and request id of one request and
\* different client IPs and paths were kept; one row is stored, that of the later
\* line
C20_Witness ==
    /\ inv[1].pc = "update_item"
    /\ Len(Items) = 2
    /\ Triple(Items[1]) = Triple(Items[2])
    /\ Items[1].client_ip = "1.2.3.4"
    /\ Items[2].client_ip = "5.6.7.8"
    /\ Cardinality(table) = 1
    /\ \A row \in table : row.path = "/x" /\ row.client_ip = "5.6.7.8"

(***************************************************************************)
(* C21  The keys of a session row                                          *)
(***************************************************************************)

\* the keys of a session row are built from its attributes and the date `date`
SessionKeys(row, date) ==
    /\ row.PK = "SESSION#" \o row.session_id
    /\ StartsWith(row.SK, "EVENT#" \o Str(row.timestamp) \o "#")
    /\ Len(row.SK) > Len("EVENT#" \o Str(row.timestamp) \o "#")
    /\ row.GSI1PK = "DOMAIN#" \o row.domain \o "#DATE#" \o date
    /\ row.GSI1SK = "SESSION#" \o row.session_id
    /\ row.GSI2PK = "DOMAIN#" \o row.domain \o "#PATH#" \o row.path
    /\ row.GSI2SK = row.timestamp

\* two session rows lie in one partition iff they are of one session
OnePartitionPerSession ==
    \A r1, r2 \in sessions : r1.PK = r2.PK <=> r1.session_id = r2.session_id

\* C21 as claimed: every session row has PK = SESSION#s, SK = EVENT#timestamp#id,
\* GSI1PK = DOMAIN#domain#DATE#date with date the first ten characters of the
\* timestamp, GSI1SK = SESSION#s, GSI2PK = DOMAIN#domain#PATH#path and GSI2SK =
\* timestamp, and the rows of one session, and only those, share a partition.
C21_SessionKeysFromTimestamp ==
    /\ \A row \in sessions : SessionKeys(row, Slice(Str(row.timestamp), 0, 10))
    /\ OnePartitionPerSession

\* C21 as amended: the same, with date the first ten characters of a timestamp
\* that is text, and the server's UTC date for a timestamp that is a number.
C21_SessionKeysFromTimestampOrToday ==
    /\ \A row \in sessions :
           SessionKeys(row, IF IsInt(row.timestamp) THEN "1970-01-01"
                            ELSE Slice(row.timestamp, 0, 10))
    /\ OnePartitionPerSession

\* C21 witness: rows of two sessions are stored, one of them with a timestamp that
\* is a number and the server's date in GSI1PK
C21_Witness ==
    \E r1, r2 \in sessions :
        /\ r1.PK = "SESSION#s1"
        /\ r1.timestamp = JsonInt(1705320000)
        /\ r1.SK \in {"EVENT#1705320000#" \o u : u \in Uuids}
        /\ r1.GSI1PK = "DOMAIN#b.io#DATE#1970-01-01"
        /\ r2.PK = "SESSION#s2"
        /\ r2.GSI2PK = "DOMAIN#a.io#PATH#/y"

(***************************************************************************)
(* C22  Event ids are long and unique                                      *)
(***************************************************************************)

\* the length of the event id at the end of the sort key of a session row
EventIdLen(row) == Len(row.SK) - Len("EVENT#" \o Str(row.timestamp) \o "#")

\* C22: after a request the tracker answered with 200, every session row has an
\* event id of at least 8 characters, and the request has added as many session
\* rows as events it reports as written.
C22_EventIdsLongAndUnique ==
    [][(req' # req /\ req'.event.method = "POST" /\ resp'.statusCode = 200) =>
           /\ \A row \in sessions' : EventIdLen(row) >= 8
           /\ Cardinality(sessions' \ sessions)
                  = Cardinality(Accepted(Submitted(req'.event), env))
      ]_vars

(***************************************************************************)
(* C23  The timestamp and the date of a session row                        *)
(***************************************************************************)

IsDigit(c) == c \in {"0", "1", "2", "3", "4", "5", "6", "7", "8", "9"}

\* d is ten characters of the form YYYY-MM-DD
IsDate(d) ==
    /\ Len(d) = 10
    /\ \A i \in 1..10 : IF i \in {5, 8} THEN Char(d, i) = "-" ELSE IsDigit(Char(d, i))

\* the date in GSI1PK of a session row
StoredDate(row) == From(row.GSI1PK, Len("DOMAIN#" \o row.domain \o "#DATE#"))

\* the event of a POST /t request that was answered with 200
SingleEvent(r) == Body(BodyStr(r.event)).fields

\* C23: the row written for an accepted event of POST /t holds the client's
\* timestamp unchanged, or the server's UTC time in ISO-8601 with a trailing Z when
\* the client sent none; and the date in GSI1PK of every session row is a
\* 10-character YYYY-MM-DD value.
C23_TimestampKeptDateWellFormed ==
    [][(req' # req /\ req'.event.method = "POST" /\ req'.event.rawPath = "/t"
            /\ resp'.statusCode = 200) =>
           /\ \E row \in sessions' :
                  /\ row.session_id = SingleEvent(req').session_id
                  /\ row.timestamp
                         = (IF "timestamp" \in DOMAIN SingleEvent(req')
                               /\ Truthy(SingleEvent(req').timestamp)
                            THEN SingleEvent(req').timestamp
                            ELSE IsoFormat(now) \o "Z")
           /\ \A row \in sessions' : IsDate(StoredDate(row))
      ]_vars

(***************************************************************************)
(* C24  A malformed body is a 400                                          *)
(***************************************************************************)

\* the body of a POST to /t or /t/batch is structurally malformed: flagged and no
\* base64 text, no JSON text, or JSON that is no object
MalformedBody(event) ==
    /\ event.method = "POST"
    /\ event.rawPath \in {"/t", "/t/batch"}
    /\ "body" \in DOMAIN event
    /\ IF DecodeRaises(event) THEN TRUE
       ELSE IF ~Loads(BodyStr(event)) THEN TRUE
       ELSE Body(BodyStr(event)).type # "object"

\* C24: a POST whose body is structurally malformed is answered with 400 and a
\* JSON error, writes nothing, and is never answered with a 5xx.
C24_MalformedBodyIs400 ==
    [][(req' # req /\ MalformedBody(req'.event)) =>
           /\ resp'.statusCode = 400
           /\ StartsWith(resp'.body, "{\"error\": ")
           /\ sessions' = sessions
      ]_vars

(***************************************************************************)
(* C29  Cache rows are rebuildable from the rollups of the window          *)
(***************************************************************************)

\* the cache row the running cache builder is at
CurrentKey == <<"CACHE#" \o job.domains[job.d], CacheTypes[job.step]>>

\* the step builds and writes the cache row the builder is at
Builds ==
    /\ job.pc = "building"
    /\ \/ job'.pc = "building" /\ job'.d = job.d /\ job'.step = job.step + 1
       \/ /\ job.step = Len(CacheTypes)
          /\ job.domains[job.d] \in DOMAIN job'.results
          /\ job'.results[job.domains[job.d]] = "success"

\* the day of the epoch whose date is `date`, among the days the clock reaches
DayOf(date) ==
    CHOOSE n \in (StartOfDay \div 86400 - 1)..(StartOfDay \div 86400 + MaxDays + 1) :
        DayString(n) = date

\* the seven days that end with the day n
WeekEnding(n) == [i \in 1..7 |-> DayString(n - 7 + i)]

\* the row written is built from the rollup rows of its domain and family in the
\* seven days ending with its to_date, and from nothing else
FromWindow(K) ==
    \A week \in {WeekEnding(DayOf(cache'[K].to_date))} :
        \A rows \in {RowsRead(rollups, K[2], job.domains[job.d], week)} :
            /\ cache'[K].from_date = week[1]
            /\ cache'[K].data = Json(Build(K[2], rows, job.domains[job.d], week, {}))

\* the row written replaces a row of the same day built from the same rollup rows
Again(K) ==
    /\ K \in DOMAIN cache
    /\ cache[K].to_date = cache'[K].to_date
    /\ job.source[K].rows = job'.source[K].rows

\* the row written carries the data, from_date and to_date of the row it replaces
Same(K) ==
    /\ cache'[K].data = cache[K].data
    /\ cache'[K].from_date = cache[K].from_date
    /\ cache'[K].to_date = cache[K].to_date

Carried(event) ==
    IF event.method # "POST" \/ DecodeRaises(event) THEN 0
    ELSE IF ~Loads(BodyStr(event)) THEN 0
    ELSE IF event.rawPath = "/t" THEN 1
    ELSE IF event.rawPath = "/t/batch" /\ Body(BodyStr(event)).type = "object"
    THEN Len(Get(Body(BodyStr(event)).fields, "events", <<>>))
    ELSE 0

\* the step answers a request that carries between 1 and `most` events with a 500
\* that names SESSIONS_TABLE, and leaves the session table as it was
MissingSessionsTable(most) ==
    (req' # req /\ ~Truthy(env.SESSIONS_TABLE) /\ Carried(req'.event) \in 1..most) =>
        /\ resp'.statusCode = 500
        /\ resp'.body = "{\"error\": \"Internal error: SESSIONS_TABLE environment "
                         \o "variable not set\"}"
        /\ sessions' = sessions

\* a step of the cache builder without TABLE_NAME returns status 500, and the
\* builder has then read no rollup row and the store is as it was
MissingTableName ==
    (job' # job /\ ~Truthy(env.TABLE_NAME)) =>
        /\ job'.pc = "returned"
        /\ job'.response = [statusCode |-> 500, body |-> "TABLE_NAME not configured"]
        /\ job'.source = <<>>
        /\ cache' = <<>> /\ rollups' = rollups0 /\ table' = {}

\* C25 as stated: without SESSIONS_TABLE every POST that carries at least one event
\* is answered 500 naming the setting and writes nothing; without TABLE_NAME the
\* cache builder returns 500 and neither reads nor writes the store
C25_MissingSettingIs500 ==
    [][MissingSessionsTable(max_events + 1) /\ MissingTableName]_vars

\* C25 as the code has it: the same for the POSTs that carry at least one and at
\* most 100 events; a larger batch is refused with 400 before the setting is looked at
C25_MissingSettingIs500UpTo100 ==
    [][MissingSessionsTable(max_events) /\ MissingTableName]_vars

\* C25 witness: with neither table name set, a batch of two events has been answered
\* with the 500 and the cache builder has returned its 500, nothing read or written
C25_Witness ==
    /\ job # NoneRec /\ req # NoneRec
    /\ ~Truthy(env.SESSIONS_TABLE) /\ ~Truthy(env.TABLE_NAME)
    /\ req.event.rawPath = "/t/batch" /\ Carried(req.event) = 2
    /\ resp.statusCode = 500
    /\ job.pc = "returned" /\ job.response.statusCode = 500
    /\ sessions = {} /\ cache = <<>> /\ job.source = <<>>

(***************************************************************************)
(* C26  Every response carries the JSON and CORS headers                   *)
(***************************************************************************)

\* the text is a JSON object as json.dumps writes a dict
IsJsonObject(text) == StartsWith(text, "{") /\ EndsWith(text, "}")

\* C26: whatever the request and the outcome, the response of the tracker has one
\* of the statuses 200, 400, 404, 405, 500, the headers Content-Type:
\* application/json, Access-Control-Allow-Origin: *, Access-Control-Allow-Headers:
\* Content-Type and Access-Control-Allow-Methods with POST and OPTIONS, and a JSON
\* body.
C26_EveryResponseHasJsonAndCors ==
    resp # NoneRec =>
        /\ resp.statusCode \in {200, 400, 404, 405, 500}
        /\ DOMAIN resp.headers = {"ContentType", "AccessControlAllowOrigin",
                                  "AccessControlAllowHeaders", "AccessControlAllowMethods"}
        /\ resp.headers.ContentType = "application/json"
        /\ resp.headers.AccessControlAllowOrigin = "*"
        /\ resp.headers.AccessControlAllowHeaders = "Content-Type"
        /\ {"POST", "OPTIONS"} \subseteq Range(Split(resp.headers.AccessControlAllowMethods, ","))
        /\ IsJsonObject(resp.body)

\* C26 witness: a flagged body that is no base64 text made the handler raise, and
\* the 500 it was answered with carries the headers and a JSON error
C26_Witness ==
    /\ req # NoneRec
    /\ DecodeRaises(req.event)
    /\ resp.statusCode = 500
    /\ resp.headers.AccessControlAllowOrigin = "*"
    /\ resp.body = "{\"error\": \"Internal error: Incorrect padding\"}"

(***************************************************************************)
(* C27  No function writes the rows of another                             *)
(***************************************************************************)

\* an event row of the log parser: PK '{domain}#{date}', SK '{timestamp}#{request_id}'
EventRow(row) ==
    /\ StartsWith(row.PK, row.domain \o "#")
    /\ row.SK = row.timestamp \o "#" \o row.request_id

\* the key of a rollup row: PK 'ROLLUP#{domain}', SK of one of the four families
RollupKey(K) ==
    /\ StartsWith(K[1], "ROLLUP#")
    /\ \E family \in {"STATS#", "PAGE#", "REF#", "HOUR#"} : StartsWith(K[2], family)

\* the row `new` is the row `old` after additions to its counter and its set of
\* addresses, and a new ttl
Additive(old, new) ==
    /\ DOMAIN old \subseteq DOMAIN new
    /\ DOMAIN new \subseteq {"requests", "count", "unique_ips", "ttl"}
    /\ \A a \in DOMAIN old \cap {"requests", "count"} : new[a] >= old[a]
    /\ "unique_ips" \in DOMAIN old => old.unique_ips \subseteq new.unique_ips

\* a step that changes event or rollup rows is a step of the log parser: it puts
\* event rows, adds to rollup rows, and leaves session and cache rows alone
ParserWrites ==
    (table' # table \/ rollups' # rollups) =>
        /\ inv' # inv
        /\ sessions' = sessions /\ cache' = cache
        /\ \A row \in table' \ table : EventRow(row)
        /\ \A row \in table \ table' :
               \E put \in table' \ table : put.PK = row.PK /\ put.SK = row.SK
        /\ \A K \in DOMAIN rollups' : RollupKey(K)
        /\ \A K \in DOMAIN rollups : K \in DOMAIN rollups' /\ Additive(rollups[K], rollups'[K])

\* a step that changes the sessions table is a step of the tracker: it puts
\* SESSION# rows there and leaves the analytics table alone
TrackerWrites ==
    sessions' # sessions =>
        /\ req' # req
        /\ table' = table /\ rollups' = rollups /\ cache' = cache
        /\ \A row \in sessions' \ sessions : StartsWith(row.PK, "SESSION#")

\* a step that changes cache rows is a step of the cache builder: it puts one
\* row 'CACHE#{domain}' of the domain it is at, and leaves every other row alone
BuilderWrites ==
    cache' # cache =>
        /\ job' # job
        /\ table' = table /\ rollups' = rollups /\ sessions' = sessions
        /\ \A K \in DOMAIN cache : K \in DOMAIN cache'
        /\ \A K \in DOMAIN cache' :
               (K \notin DOMAIN cache \/ cache'[K] # cache[K]) =>
                   /\ K = <<"CACHE#" \o job.domains[job.d], CacheTypes[job.step]>>
                   /\ cache'[K].PK = K[1] /\ cache'[K].SK = K[2]

\* C27: the log parser writes only event rows and additive updates of ROLLUP#
\* rows, the tracker only SESSION# rows of the sessions table, the cache builder
\* only CACHE#{domain} rows, and none of them changes a row of another.
C27_EachWritesItsOwnRows ==
    [][ParserWrites /\ TrackerWrites /\ BuilderWrites]_vars

\* C27 witness: the parser has stored the events of an object and added to the
\* rollups, the tracker has stored a session row, and the cache builder has
\* written the four rows of each of the two domains
C27_Witness ==
    /\ job # NoneRec
    /\ inv[1].pc = "returned" /\ table # {} /\ rollups # rollups0
    /\ sessions # {}
    /\ job.pc = "returned"
    /\ DOMAIN cache = {"CACHE#a.io", "CACHE#b.io"} \X {"stats", "pages", "referrers", "hours"}

(***************************************************************************)
(* C28  The AWS clients are constructed once                               *)
(***************************************************************************)

\* at most one client has been constructed for each accessor, and every call has
\* returned the client the first call constructed
OneClient ==
    \A a \in Accessors : clients.made[a] <= 1 /\ clients.returned[a] \subseteq {1}

\* C28 as stated: however the calls of the threads of one process follow each other
\* or interleave, each accessor constructs at most one client and every call
\* returns it
C28_OneClientPerProcess == OneClient

\* C28 as the code has it: the same, as long as no call to an accessor has started
\* while another call to that accessor was running; the accessors take no lock
C28_OneClientWhenCallsDoNotOverlap == ~clients.overlapped => OneClient

\* C28 witness: both threads have called _get_dynamodb twice, one call after the
\* other, and all four calls returned the one client that was constructed
C28_Witness ==
    /\ clients # NoneRec
    /\ ~clients.overlapped
    /\ \A t \in Threads :
           /\ clients.thread[t] = [pc |-> "idle", accessor |-> "_dynamodb", calls |-> 2]
    /\ clients.made["_dynamodb"] = 1
    /\ clients.made["_s3_client"] = 0
    /\ clients.returned["_dynamodb"] = {1}

(***************************************************************************)
(* C30  An access token is issued to a live admin's valid token only       *)
(***************************************************************************)

\* the step answers a POST /auth/verify whose body is a JSON object
VerifyAnswered ==
    /\ auth'.n = auth.n + 1
    /\ auth'.req.routeKey = "POST /auth/verify"
    /\ "fields" \in DOMAIN auth'.req.body

\* the token of the request the step answers; Blank when there is none
TokenSent == Get(auth'.req.body.fields, "token", Blank)

\* the token is validly signed: the service, which alone holds the secret, has
\* issued it
Genuine(token) == token \in auth.issued

\* the email of the token is that of an admin who is active as the step is taken
LiveAdmin(token) ==
    /\ token.payload.email \in DOMAIN auth.admins
    /\ \/ "active" \notin DOMAIN auth.admins[token.payload.email]
       \/ auth.admins[token.payload.email].active

\* the response of the step hands out an access token
Grants == "access_token" \in DOMAIN auth'.resp.body

\* C30: POST /auth/verify hands out an access token only for a presented token
\* that is validly signed, unexpired, and of an admin active at that moment, and
\* then with status 200 and for the email of that token; a request without a token
\* is answered 400; an expired, invalid or no-longer-admin token is answered 401,
\* and no access token is handed out or created.
C30_AccessTokenOnlyForLiveAdmin ==
    [][VerifyAnswered =>
          /\ Grants =>
                 /\ TokenSent # Blank
                 /\ Genuine(TokenSent)
                 /\ TokenSent.payload.exp > now
                 /\ LiveAdmin(TokenSent)
                 /\ auth'.resp.statusCode = 200
                 /\ auth'.resp.body.access_token.payload.email = TokenSent.payload.email
                 /\ auth'.resp.body.access_token \in auth'.issued
          /\ TokenSent = Blank => auth'.resp.statusCode = 400 /\ ~Grants
          /\ (/\ TokenSent # Blank
              /\ \/ ~Genuine(TokenSent)
                 \/ TokenSent.payload.exp <= now
                 \/ ~LiveAdmin(TokenSent)) =>
                 /\ auth'.resp.statusCode = 401
                 /\ ~Grants
                 /\ auth'.issued = auth.issued
      ]_vars

\* C30 witness: bob, an admin without an `active` attribute, has presented the
\* magic link token the service sent him, a quarter of an hour had not passed, and
\* he was handed an access token good for 24 hours
C30_Witness ==
    /\ auth # NoneRec /\ auth.req # NoneRec
    /\ auth.req.routeKey = "POST /auth/verify"
    /\ "fields" \in DOMAIN auth.req.body /\ "token" \in DOMAIN auth.req.body.fields
    /\ auth.req.body.fields.token \in auth.issued
    /\ auth.req.body.fields.token.payload.email = "bob@x.io"
    /\ auth.req.body.fields.token.payload.exp = magic_link_expiry
    /\ auth.resp.statusCode = 200
    /\ auth.resp.body.access_token.payload =
           [email |-> "bob@x.io", name |-> "bob", iat |-> now, exp |-> now + access_expiry]
    /\ auth.resp.body.user = [email |-> "bob@x.io", name |-> "bob"]

(***************************************************************************)
(* C31  The answer to a magic link request does not tell who is an admin   *)
(***************************************************************************)

\* the step answers a POST /auth/magic-link whose email is not empty
MagicLinkAnswered ==
    /\ auth'.n = auth.n + 1
    /\ auth'.req.routeKey = "POST /auth/magic-link"
    /\ Strip(Lower(Get(auth'.req.body.fields, "email", ""))) # ""

\* the admin tables that differ in what the asked address is: an active admin, an
\* inactive admin, or no admin at all
AdminTables ==
    {AdminUsers}
    \cup {[AdminUsers EXCEPT ![e] = ("active" :> FALSE) @@ @] : e \in DOMAIN AdminUsers}
    \cup {[x \in DOMAIN AdminUsers \ {e} |-> AdminUsers[x]] : e \in DOMAIN AdminUsers}

\* the admin item of the address asked for is there and active
AskedByLiveAdmin ==
    LET email == Strip(Lower(auth'.req.body.fields.email))
    IN  /\ email \in DOMAIN auth.admins
        /\ Get(auth.admins[email], "active", TRUE)

\* C31: POST /auth/magic-link with a non-empty email is answered 200 with the one
\* message, the same answer the service would give under every other admin table
\* (the address an active admin, an inactive admin or no admin), and a mail is
\* sent only to an active admin.
C31_SameAnswerWhoeverAsks ==
    [][MagicLinkAnswered =>
          /\ auth'.resp = AuthResponse(200, [message |-> "If you are an admin, check your email"])
          /\ \A admins \in AdminTables :
                 handle_magic_link(auth'.req, admins, now, auth'.ses).response = auth'.resp
          /\ auth'.outbox # auth.outbox => AskedByLiveAdmin
      ]_vars

(***************************************************************************)
(* C32  Events are written before the rollups of their object are updated  *)
(***************************************************************************)

\* the table holds the row of a kept event
InTable(rows, item) ==
    \E row \in rows : /\ row.PK = item.domain \o "#" \o item.date
                      /\ row.SK = item.timestamp \o "#" \o item.request_id

\* no line of the object at `key` is parsed and kept
NothingKept(key) ==
    \A line \in Range(Split(bucket[key], "\n")) :
        \/ _parse_cloudfront_log_line(line) = NoneRec
        \/ _should_exclude_path(_parse_cloudfront_log_line(line).path, env)

\* invocation i issues an update_item call in this step
IssuesUpdate(i) == inv[i].pc = "update_item" /\ inv'[i] # inv[i]

\* invocation i fetches an object in this step
Fetches(i) == inv[i].pc = "get_object" /\ inv'[i] # inv[i]

\* C32: an update_item call of an object is issued only when every batch of the
\* object has been put and its events are rows of the table, and the rollups
\* change by such a call only; a raised event write ends the invocation with the
\* rollups as they are and no call issued for the object; an object none of whose
\* lines is kept leads to no put and no update: the handler goes on to the next
\* record, returns, or raises when the fetch has failed.
C32_EventsBeforeRollups ==
    [][\A i \in Invocations :
          /\ IssuesUpdate(i) =>
                 /\ inv[i].offset >= Len(inv[i].items)
                 /\ \A k \in 1..Len(inv[i].items) : InTable(table, inv[i].items[k])
                 /\ table' = table
          /\ rollups' # rollups => \E j \in Invocations : IssuesUpdate(j)
          /\ (inv'[i].pc = "update_item" /\ inv[i].pc # "update_item") =>
                 /\ inv[i].pc = "batch_write"
                 /\ \A k \in 1..Len(inv[i].items) : InTable(table', inv[i].items[k])
          /\ (inv[i].pc = "batch_write" /\ inv'[i].pc = "raised") =>
                 /\ rollups' = rollups
                 /\ inv[i].issued = 0
          /\ inv[i].pc = "raised" => inv'[i] = inv[i] /\ rollups' = rollups
          /\ inv'[i].pc = "batch_write" => inv[i].pc \in {"get_object", "batch_write"}
          /\ (/\ Fetches(i)
              /\ inv[i].Records[inv[i].r] \in DOMAIN bucket
              /\ NothingKept(inv[i].Records[inv[i].r])) =>
                 /\ inv'[i].pc \notin {"batch_write", "update_item"}
                 /\ table' = table
                 /\ rollups' = rollups
      ]_vars

\* C32 witness: both batches of the large object are in the table, and the second
\* update_item call of the object is about to be issued
C32_Witness ==
    /\ inv[1].pc = "update_item"
    /\ inv[1].Records[inv[1].r] = "a.io/big.gz"
    /\ Len(inv[1].items) = BigLines - 1
    /\ inv[1].issued >= 1
    /\ \A k \in 1..Len(inv[1].items) : InTable(table, inv[1].items[k])
    /\ \E K \in DOMAIN rollups : K[2] = "STATS#2024-01-15" /\ rollups[K].requests >= BigLines - 1

(***************************************************************************)
(* C33  The rollup writer aggregates an object, then updates once per key  *)
(***************************************************************************)

\* invocation i has put the last batch of an object in this step: Phase 1 of
\* _update_rollups has run, no call of Phase 2 is issued yet
Aggregated(i) == inv[i].pc = "batch_write" /\ inv'[i].pc = "update_item"

\* the update_item calls of the list that go to rollup row K
CallsTo(calls, K) == {n \in 1..Len(calls) : calls[n].Key = K}

\* the rollup rows of the referrer family
IsRefRow(K) == StartsWith(K[2], "REF#")

\* C33: when the events of an object are aggregated no update has been issued, and
\* the calls to come are exactly one for each rollup row in which some kept event
\* of the object counts (daily, page, hour, and referrer for the events that have
\* a referrer_domain), with the number of those events as its delta; every
\* update_item step then issues the first of the calls left and adds its delta,
\* unless the call fails.
C33_OneUpdatePerKey ==
    [][\A i \in Invocations :
          /\ Aggregated(i) =>
                 /\ rollups' = rollups
                 /\ {inv'[i].pending[n].Key : n \in 1..Len(inv'[i].pending)}
                        = RowsOfAll(inv[i].items)
                 /\ \A K \in RowsOfAll(inv[i].items) :
                        /\ Cardinality(CallsTo(inv'[i].pending, K)) = 1
                        /\ \A n \in CallsTo(inv'[i].pending, K) :
                               inv'[i].pending[n].delta = Delta(inv[i].items, K)
                 /\ Cardinality({K \in RowsOfAll(inv[i].items) : IsRefRow(K)})
                        = Cardinality({<<inv[i].items[k].domain, inv[i].items[k].date,
                                         inv[i].items[k].referrer_domain>> :
                                          k \in {j \in 1..Len(inv[i].items) :
                                                    Truthy(inv[i].items[j].referrer_domain)}})
          /\ IssuesUpdate(i) =>
                 /\ inv'[i].pc = "update_item" => inv'[i].pending = Tail(inv[i].pending)
                 /\ inv'[i].pc # "update_item" => Len(inv[i].pending) = 1
                 /\ inv'[i].items = inv[i].items \/ inv'[i].pc # "update_item"
                 /\ rollups' # rollups =>
                        /\ Counter(rollups', Head(inv[i].pending).Key)
                               = Counter(rollups, Head(inv[i].pending).Key)
                                 + Head(inv[i].pending).delta
                        /\ \A K \in DOMAIN rollups \ {Head(inv[i].pending).Key} :
                               rollups'[K] = rollups[K]
      ]_vars

\* C33 witness: the large object is aggregated: one call for its day, one for the
\* page /, one for its one referrer and one for each of its two hours, the hour 12
\* with the events of the even lines
C33_Witness ==
    /\ inv[1].pc = "update_item"
    /\ inv[1].issued = 0
    /\ inv[1].Records[inv[1].r] = "a.io/big.gz"
    /\ Len(inv[1].pending) = 5
    /\ \E n \in 1..5 : /\ inv[1].pending[n].Key = <<"ROLLUP#a.io", "HOUR#2024-01-15#12">>
                        /\ inv[1].pending[n].delta = BigLines \div 2
    /\ \E n \in 1..5 : /\ inv[1].pending[n].Key = <<"ROLLUP#a.io", "REF#2024-01-15#google.com">>
                        /\ inv[1].pending[n].delta = 1

(***************************************************************************)
(* C34  The rollup families of a day agree                                 *)
(***************************************************************************)

\* the (domain, date) pairs of the stored events and of the daily stats rows
DomainDates ==
    {<<row.domain, From(row.PK, Len(row.domain) + 1)>> : row \in table}
    \cup {<<From(K[1], Len("ROLLUP#")), From(K[2], Len("STATS#"))>> :
             K \in {J \in DOMAIN rollups : StartsWith(J[2], "STATS#")}}

\* the sum of the counters of the rows of one family for a domain and a date
FamilySum(rl, domain, date, family) ==
    SumOver([K \in DOMAIN rl |-> Counter(rl, K)],
            {K \in DOMAIN rl : /\ K[1] = "ROLLUP#" \o domain
                                /\ StartsWith(K[2], family \o date \o "#")})

\* requests of the daily stats row of a domain and a date
DailyRequests(rl, domain, date) == Counter(rl, <<"ROLLUP#" \o domain, "STATS#" \o date>>)

\* no invocation is between the update_item calls of an object, and none has
\* logged a failed update
Settled == \A i \in Invocations : inv[i].pc # "update_item" /\ inv[i].warnings = 0

\* C34: starting from an empty table, whenever the objects processed so far are
\* processed to the end and no update has failed, for every domain and date the
\* requests of the STATS row equal the sum of the PAGE counts and the sum of the
\* HOUR counts, and are at least the sum of the REF counts and the number of
\* unique_ips.
C34_FamiliesAgree ==
    (rollups0 = <<>> /\ Settled) =>
        \A x \in DomainDates :
            /\ DailyRequests(rollups, x[1], x[2]) = FamilySum(rollups, x[1], x[2], "PAGE#")
            /\ DailyRequests(rollups, x[1], x[2]) = FamilySum(rollups, x[1], x[2], "HOUR#")
            /\ FamilySum(rollups, x[1], x[2], "REF#") <= DailyRequests(rollups, x[1], x[2])
            /\ Cardinality(UniqueIps(rollups, <<"ROLLUP#" \o x[1], "STATS#" \o x[2]>>))
                   <= DailyRequests(rollups, x[1], x[2])

\* C34 witness: three objects of two domains are processed: b.io has two requests
\* on 2024-01-16 for two pages, both with a referrer, and a.io has three requests
\* on 2024-01-15 from two addresses, one of them with a referrer
C34_Witness ==
    /\ rollups0 = <<>>
    /\ inv[1].pc = "returned"
    /\ inv[1].warnings = 0
    /\ inv[1].Records = <<"a.io/E1.gz", "b.io/two.gz", "a.io/E2.gz">>
    /\ DailyRequests(rollups, "b.io", "2024-01-16") = 2
    /\ FamilySum(rollups, "b.io", "2024-01-16", "PAGE#") = 2
    /\ FamilySum(rollups, "b.io", "2024-01-16", "REF#") = 2
    /\ Counter(rollups, <<"ROLLUP#b.io", "PAGE#2024-01-16#/x">>) = 1
    /\ DailyRequests(rollups, "a.io", "2024-01-15") = 3
    /\ FamilySum(rollups, "a.io", "2024-01-15", "HOUR#") = 3
    /\ FamilySum(rollups, "a.io", "2024-01-15", "REF#") = 1
    /\ Cardinality(UniqueIps(rollups, <<"ROLLUP#a.io", "STATS#2024-01-15">>)) = 2

(***************************************************************************)
(* C35  A referrer of the site's own domain                                *)
(***************************************************************************)

\* the referrer of a REF row: what follows the date in 'REF#{date}#{r}'
ReferrerOf(K) == SplitN(K[2], "#", 2)[3]

\* C35: no event row has a referrer_domain that is its own stored domain once both
\* are lowercased and stripped of a leading 'www.', and no REF row of a domain
\* names that domain as the referrer.
C35_NoSelfReferralStored ==
    /\ \A row \in table :
           "referrer_domain" \in DOMAIN row =>
               Normalize(row.referrer_domain) # Normalize(row.domain)
    /\ \A K \in DOMAIN rollups :
           IsRefRow(K) => Normalize(ReferrerOf(K)) # Normalize(From(K[1], Len("ROLLUP#")))

(***************************************************************************)
(* C36  The tracker decides on method, body and path, in this order        *)
(***************************************************************************)

\* the step answers a request of the tracker
TrackerAnswers == req' # req

\* the response is an error of the given status with a JSON {error} body
IsError(response, status) ==
    /\ response.statusCode = status
    /\ StartsWith(response.body, "{\"error\": \"")
    /\ EndsWith(response.body, "\"}")

\* the body text of the request reaches json.loads and is no JSON
NotJson(event) == ~DecodeRaises(event) /\ ~Loads(BodyStr(event))

\* the body text of the request reaches json.loads and is parsed
Parsed(event) == ~DecodeRaises(event) /\ Loads(BodyStr(event))

C37_EmptyAllowListAcceptsNothing ==
    env.ALLOWED_DOMAINS = "" => sessions = {}

(***************************************************************************)
(* C38  The counts of a successful invocation, and the batches of an object *)
(***************************************************************************)

\* the lines of the object at `key` the handler parses and the path filter keeps;
\* the lines of an object whose key names no domain are not parsed
KeptCount(key) ==
    IF ~Truthy(_extract_domain_from_s3_key(key)) THEN 0
    ELSE Cardinality({n \in 1..Len(Split(bucket[key], "\n")) :
             /\ _parse_cloudfront_log_line(Split(bucket[key], "\n")[n]) # NoneRec
             /\ ~_should_exclude_path(
                    _parse_cloudfront_log_line(Split(bucket[key], "\n")[n]).path, env)})

\* the kept lines of all objects of an envelope
KeptInAll(Records) ==
    SumOver([n \in 1..Len(Records) |-> KeptCount(Records[n])], 1..Len(Records))

RECURSIVE Flatten(_)
\* the batches of a sequence, one after the other
Flatten(batches) ==
    IF batches = <<>> THEN <<>> ELSE Head(batches) \o Flatten(Tail(batches))

\* C38: when an invocation returns, processed is the number of lines of its
\* objects that were parsed and kept and written equals processed; and when the
\* last batch of an object is put, the batches put for it are of at most 25 items
\* each, all but the last of 25, and one after the other they are the kept events
\* of the object, each once and in order, every one of them a row of the table.
C38_CountsAndBatches ==
    [][\A i \in Invocations :
          /\ (inv'[i].pc = "returned" /\ inv[i].pc # "returned") =>
                 /\ inv'[i].total_processed = KeptInAll(inv'[i].Records)
                 /\ inv'[i].total_written = inv'[i].total_processed
          /\ Aggregated(i) =>
                 /\ Flatten(inv'[i].puts) = inv[i].items
                 /\ Len(inv[i].items) = KeptCount(inv[i].Records[inv[i].r])
                 /\ \A b \in 1..Len(inv'[i].puts) :
                        /\ Len(inv'[i].puts[b]) \in 1..batch_size
                        /\ b < Len(inv'[i].puts) => Len(inv'[i].puts[b]) = batch_size
                 /\ \A k \in 1..Len(inv[i].items) : InTable(table', inv[i].items[k])
          /\ (inv[i].pc = "batch_write" /\ inv'[i].puts # inv[i].puts) =>
                 table' = PutAll(table, inv'[i].puts[Len(inv'[i].puts)], now)
      ]_vars

\* C38 witness: the comment object and the large object are processed and the
\* invocation has returned: all lines but the stylesheet request are processed
\* and written, in two batches
C38_Witness ==
    /\ inv[1].pc = "returned"
    /\ inv[1].Records = <<"a.io/comments.gz", "a.io/big.gz">>
    /\ inv[1].total_processed = BigLines - 1
    /\ inv[1].total_written = BigLines - 1
    /\ inv[1].warnings = 0
    /\ Cardinality(table) = BigLines - 1
    /\ BigLines - 1 > batch_size

(***************************************************************************)
(* C39  The cache builder isolates the failure of a domain                 *)
(***************************************************************************)

\* the entries of DOMAIN_LIST, stripped, that are not blank
Configured == {Strip(x) : x \in Range(DOMAIN_LIST(env))} \ {""}

\* the scheduler starts the cache builder in this step
Starts == job'.runs = job.runs + 1

\* the work on the current domain ends with an error in this step
DomainFails ==
    /\ job.pc = "building"
    /\ job.domains[job.d] \in DOMAIN job'.results
    /\ job'.results[job.domains[job.d]] # "success"
    /\ job'.results # job.results

\* the four cache rows of the domain are written in the run that ends now
BuiltNow(domain) ==
    \A i \in 1..Len(CacheTypes) :
        /\ <<"CACHE#" \o domain, CacheTypes[i]>> \in DOMAIN cache'
        /\ cache'[<<"CACHE#" \o domain, CacheTypes[i]>>].built_at = IsoFormat(now) \o "+00:00"
        /\ cache'[<<"CACHE#" \o domain, CacheTypes[i]>>].to_date = Today(now)

\* C39: the run works on the entries of DOMAIN_LIST that are not blank, and with
\* none such it returns 200 and writes nothing; when the work on a domain raises,
\* that domain alone is marked with the error, the results of the other domains
\* stay, no row is written by the failed call, and the run goes on with the next
\* domain or, after the last, returns; a run with domains returns 200 with a
\* result for each configured domain, and the four cache rows of every domain
\* whose result is success are written in that run.
C39_FailureStaysInItsDomain ==
    [][/\ (Starts /\ Truthy(env.TABLE_NAME)) =>
              /\ Configured = {} =>
                     /\ job'.pc = "returned"
                     /\ job'.response = [statusCode |-> 200, body |-> "No domains to process"]
                     /\ cache' = cache
              /\ Configured # {} =>
                     /\ job'.pc = "building"
                     /\ Range(job'.domains) = Configured
                     /\ job'.results = <<>>
       /\ DomainFails =>
              /\ job'.failures = job.failures + 1
              /\ StartsWith(job'.results[job.domains[job.d]], "error: ")
              /\ \A d \in DOMAIN job.results : d # job.domains[job.d] =>
                     d \in DOMAIN job'.results /\ job'.results[d] = job.results[d]
              /\ DOMAIN job'.results = DOMAIN job.results \cup {job.domains[job.d]}
              /\ cache' = cache
              /\ job.d < Len(job.domains) =>
                     /\ job'.pc = "building"
                     /\ job'.d = job.d + 1
                     /\ job'.step = 1
              /\ job.d = Len(job.domains) => job'.pc = "returned"
       /\ (job.pc = "building" /\ job'.pc = "returned") =>
              /\ job'.response.statusCode = 200
              /\ job'.response.body = Json([message |-> "Cache build complete",
                                            results |-> job'.results])
              /\ DOMAIN job'.results = Configured
              /\ \A d \in Configured : job'.results[d] = "success" => BuiltNow(d)
              /\ Cardinality({d \in Configured : job'.results[d] # "success"})
                     <= job'.failures
      ]_vars

\* C39 witness: with DOMAIN_LIST ' ,b.io,,a.io ' the write of a cache row of b.io
\* has failed, and the run has gone on to build the four rows of a.io and returned
C39_Witness ==
    /\ env.DOMAIN_LIST = " ,b.io,,a.io "
    /\ job.pc = "returned"
    /\ job.domains = <<"b.io", "a.io">>
    /\ job.response.statusCode = 200
    /\ job.results["a.io"] = "success"
    /\ job.results["b.io"] = "error: ProvisionedThroughputExceededException"
    /\ \A i \in 1..Len(CacheTypes) : <<"CACHE#a.io", CacheTypes[i]>> \in DOMAIN cache
    /\ <<"CACHE#b.io", "stats">> \in DOMAIN cache
    /\ <<"CACHE#b.io", "hours">> \notin DOMAIN cache

====
